---- MODULE Spec2Model ----
(***************************************************************************)
(* TrinityChain: the triangle UTXO engine.                                 *)
(*                                                                         *)
(* State machine of Blockchain (src/src/blockchain/core/chain.rs),         *)
(* TriangleState (src/src/blockchain/core/state.rs), the transaction       *)
(* validation rules (src/src/transaction/validation.rs) and the in-memory  *)
(* persistence backend (src/src/persistence.rs).                           *)
(*                                                                         *)
(* Modelling conventions                                                   *)
(*  - Coord (I32F32) is an integer number of quanta; one quantum is half   *)
(*    of GEOMETRIC_TOLERANCE, COORD_ONE quanta make 1.0.  Rewards are      *)
(*    scaled down accordingly; only their order matters to the code.       *)
(*  - SHA-256 is collision free: a digest is modelled by the tagged tuple  *)
(*    of exactly the bytes that the code feeds to the hasher, so two       *)
(*    digests are equal iff the hashed fields are equal.  Fields that the  *)
(*    code does not hash (signature, public_key, memo, parent_hash of a    *)
(*    triangle) do not appear in the digest.                               *)
(*  - For the proof-of-work comparison the leading HashLen bytes of a      *)
(*    block hash are given by HashBytes, a fixed mixing function of the    *)
(*    header fields.                                                       *)
(*  - An ECDSA signature is modelled by the key that made it and the       *)
(*    message it was made over; verification succeeds iff both match.      *)
(*  - Option<T> is a sequence of length 0 (None) or 1 (Some).              *)
(*  - Timestamps are milliseconds counted from the genesis timestamp.      *)
(*  - Two Persistence handles on the same Arc<Mutex<..>> fields share one   *)
(*    store; a handle on fresh fields is a store of its own.               *)
(*  - Coord arithmetic wraps at the width of I32F32, as the operators of    *)
(*    the fixed crate do in a build without overflow checks.               *)
(*  - Unsigned subtraction that underflows panics in a build with overflow  *)
(*    checks and wraps in a build without; the actions that can reach it    *)
(*    take the build as an input.                                           *)
(***************************************************************************)
EXTENDS Integers, Sequences, FiniteSets, TLC

\* blocks, difficulty, mempool, state: the fields of the live Blockchain;
\* store: the contents of its persistence backend; last: the result of the
\* last apply_block; origin: the store the chain was loaded from, if any;
\* threads: the mutex guards held inside the persistence backend; node: the
\* mining task, the chain lock and the requests of the API server's Node;
\* sync: the peers and the pending blocks of the NodeSynchronizer
VARIABLES blocks, difficulty, mempool, state, store, last, origin, threads, node, sync

vars == <<blocks, difficulty, mempool, state, store, last, origin, threads, node, sync>>

(***************************************************************************)
(* Bounds of the model                                                     *)
(***************************************************************************)
MaxBlocks == 3
MaxMempool == 1
HashLen == 1

(***************************************************************************)
(* Program constants                                                       *)
(***************************************************************************)
GEOMETRIC_TOLERANCE == 2
COORD_ONE == 4
MAX_REWARD_AREA == 8
GENESIS_REWARD == 12
INITIAL_REWARD == 6
MAX_TRANSACTION_SIZE == 100000
MAX_MEMO_LENGTH == 256
PUBLIC_KEY_SIZE == 33
COMPACT_SIGNATURE_SIZE == 64
DIFFICULTY_ADJUSTMENT_INTERVAL == 10
TARGET_BLOCK_TIME == 30
GENESIS_TIMESTAMP == 0

ZeroAddress == 0
Addresses == {1, 2}
PublicKeys == {101, 102}

\* KeyPair::address: SHA-256 of the compressed public key.
KeyAddress(pk) == pk - 100

\* the key whose address is a
KeyOf(a) == a + 100

None == <<>>
Some(x) == <<x>>

ZeroHash == <<"zero">>

(***************************************************************************)
(* Geometry (src/src/geometry.rs)                                          *)
(***************************************************************************)
Abs(x) == IF x < 0 THEN -x ELSE x

\* division of the raw fixed-point bits by an integer: truncates towards zero
TruncDiv(x, n) == IF x >= 0 THEN x \div n ELSE -((-x) \div n)

\* fixed-point product
FixMul(x, y) == (x * y) \div COORD_ONE

\* Coord is a signed two's complement number (I32F32, 64 bits); like the
\* constants above the width is scaled down.  The least and the greatest
\* Coord in quanta:
CoordBits == 16
CoordMin == 0 - 2 ^ (CoordBits - 1)
CoordMax == 2 ^ (CoordBits - 1) - 1

OutOfRange(x) == x < CoordMin \/ x > CoordMax

\* the two's complement value that an overflowing operation leaves in a
\* build without overflow checks
WrapCoord(x) == ((x - CoordMin) % (CoordMax - CoordMin + 1)) + CoordMin

\* Coord + Coord, Coord - Coord and Coord::abs
CoordAdd(x, y) == WrapCoord(x + y)
CoordSub(x, y) == WrapCoord(x - y)
CoordAbs(x) == WrapCoord(Abs(x))

Point(x, y) == <<x, y>>

midpoint(p, q) == Point(TruncDiv(p[1] + q[1], 2), TruncDiv(p[2] + q[2], 2))

PointEquals(p, q) == p[1] = q[1] /\ p[2] = q[2]

Triangle(a, b, c, parent_hash, owner) ==
    [a |-> a, b |-> b, c |-> c, parent_hash |-> parent_hash, owner |-> owner,
     value |-> None]

new_with_value(a, b, c, parent_hash, owner, value) ==
    [a |-> a, b |-> b, c |-> c, parent_hash |-> parent_hash, owner |-> owner,
     value |-> Some(value)]

area(t) ==
    TruncDiv(Abs(FixMul(t.a[1], t.b[2] - t.c[2])
                 + FixMul(t.b[1], t.c[2] - t.a[2])
                 + FixMul(t.c[1], t.a[2] - t.b[2])), 2)

effective_value(t) == IF t.value # None THEN t.value[1] ELSE area(t)

change_owner(t, new_owner) == [t EXCEPT !.owner = new_owner]

with_effective_value(t, value) == [t EXCEPT !.value = Some(value)]

\* order of the vertex sort in Triangle::hash: by x bits, then by y bits
PointLE(p, q) == p[1] < q[1] \/ (p[1] = q[1] /\ p[2] <= q[2])

SortedVertices(t) ==
    CHOOSE s \in {<<t.a, t.b, t.c>>, <<t.a, t.c, t.b>>, <<t.b, t.a, t.c>>,
                  <<t.b, t.c, t.a>>, <<t.c, t.a, t.b>>, <<t.c, t.b, t.a>>} :
        PointLE(s[1], s[2]) /\ PointLE(s[2], s[3])

\* Triangle::hash: sorted vertices, owner, value when present
TriangleHash(t) == <<"triangle", SortedVertices(t), t.owner, t.value>>

subdivide(t) ==
    LET mid_ab == midpoint(t.a, t.b)
        mid_bc == midpoint(t.b, t.c)
        mid_ca == midpoint(t.c, t.a)
        parent_hash == Some(TriangleHash(t))
        child_value == TruncDiv(effective_value(t), 3)
    IN  << new_with_value(t.a, mid_ab, mid_ca, parent_hash, t.owner, child_value),
           new_with_value(mid_ab, t.b, mid_bc, parent_hash, t.owner, child_value),
           new_with_value(mid_ca, mid_bc, t.c, parent_hash, t.owner, child_value) >>

(***************************************************************************)
(* Transactions (src/src/transaction/types.rs)                             *)
(***************************************************************************)
CoinbaseTx(reward_area, beneficiary_address, nonce) ==
    [kind |-> "Coinbase", reward_area |-> reward_area,
     beneficiary_address |-> beneficiary_address, nonce |-> nonce]

TransferTx(input_hash, new_owner, sender, amount, fee_area, nonce, signature, public_key, memo) ==
    [kind |-> "Transfer", input_hash |-> input_hash, new_owner |-> new_owner,
     sender |-> sender, amount |-> amount, fee_area |-> fee_area,
     nonce |-> nonce, signature |-> signature, public_key |-> public_key,
     memo |-> memo]

SubdivisionTx(parent_hash, children, owner_address, fee_area, nonce, signature, public_key) ==
    [kind |-> "Subdivision", parent_hash |-> parent_hash, children |-> children,
     owner_address |-> owner_address, fee_area |-> fee_area, nonce |-> nonce,
     signature |-> signature, public_key |-> public_key]

\* Transaction::hash
TxHash(tx) ==
    CASE tx.kind = "Subdivision" ->
           <<"subdivision", tx.parent_hash,
             [i \in 1..Len(tx.children) |-> TriangleHash(tx.children[i])],
             tx.owner_address, tx.fee_area, tx.nonce>>
      [] tx.kind = "Coinbase" ->
           <<"coinbase", tx.reward_area, tx.beneficiary_address, tx.nonce>>
      [] tx.kind = "Transfer" ->
           <<"transfer", tx.input_hash, tx.new_owner, tx.sender, tx.amount,
             tx.fee_area, tx.nonce>>

TransferSignableMessage(tx) ==
    <<"TRANSFER:", tx.input_hash, tx.new_owner, tx.sender, tx.amount,
      tx.fee_area, tx.nonce>>

SubdivisionSignableMessage(tx) ==
    <<tx.parent_hash,
      [i \in 1..Len(tx.children) |-> TriangleHash(tx.children[i])],
      tx.owner_address, tx.fee_area, tx.nonce>>

\* bincode length of a serialized triangle
TriangleSize(t) ==
    48 + (IF t.parent_hash = None THEN 1 ELSE 33) + 32
       + (IF t.value = None THEN 1 ELSE 9)

RECURSIVE SumSizes(_)
SumSizes(ts) == IF ts = <<>> THEN 0 ELSE TriangleSize(Head(ts)) + SumSizes(Tail(ts))

OptBytesSize(o) == IF o = None THEN 1 ELSE 9 + o[1].len

SerializedSize(tx) ==
    CASE tx.kind = "Coinbase" -> 4 + 8 + 32 + 8
      [] tx.kind = "Transfer" ->
           4 + 32 + 32 + 32 + 8 + 8 + 8 + OptBytesSize(tx.signature)
             + OptBytesSize(tx.public_key)
             + (IF tx.memo = None THEN 1 ELSE 9 + tx.memo[1])
      [] tx.kind = "Subdivision" ->
           4 + 32 + 8 + SumSizes(tx.children) + 32 + 8 + 8
             + OptBytesSize(tx.signature) + OptBytesSize(tx.public_key)

validate_size(tx) ==
    IF SerializedSize(tx) > MAX_TRANSACTION_SIZE THEN "InvalidTransaction" ELSE "Ok"

(***************************************************************************)
(* Crypto (src/src/crypto.rs)                                              *)
(***************************************************************************)
\* a signature made with the secret key of pk over msg
Sign(pk, msg) == [len |-> COMPACT_SIGNATURE_SIZE, key |-> pk, msg |-> msg]

PublicKeyBytes(pk) == [len |-> PUBLIC_KEY_SIZE, key |-> pk]

verify_signature(public_key, message, signature) ==
    IF public_key.len # PUBLIC_KEY_SIZE THEN "CryptoError"
    ELSE IF signature.len # COMPACT_SIGNATURE_SIZE THEN "CryptoError"
    ELSE IF public_key.key \notin PublicKeys THEN "CryptoError"
    ELSE IF signature.key = public_key.key /\ signature.msg = message THEN "Ok"
    ELSE "CryptoError"

(***************************************************************************)
(* Transaction validation (src/src/transaction/validation.rs,              *)
(* src/src/transaction/types.rs)                                           *)
(***************************************************************************)
CoinbaseValidate(tx) ==
    IF tx.reward_area <= 0 THEN "InvalidTransaction"
    ELSE IF tx.reward_area > MAX_REWARD_AREA THEN "InvalidTransaction"
    ELSE IF tx.beneficiary_address = ZeroAddress THEN "InvalidTransaction"
    ELSE "Ok"

\* TransferTx::validate: the stateless checks
TransferValidate(tx) ==
    IF tx.signature = None \/ tx.public_key = None THEN "InvalidTransaction"
    ELSE IF tx.sender = ZeroAddress THEN "InvalidTransaction"
    ELSE IF tx.new_owner = ZeroAddress THEN "InvalidTransaction"
    ELSE IF tx.sender = tx.new_owner THEN "InvalidTransaction"
    ELSE IF tx.amount < 0 THEN "InvalidTransaction"
    ELSE IF tx.fee_area < 0 THEN "InvalidTransaction"
    ELSE IF tx.amount = 0 /\ tx.fee_area = 0 THEN "InvalidTransaction"
    ELSE IF tx.memo # None /\ tx.memo[1] > MAX_MEMO_LENGTH THEN "InvalidTransaction"
    ELSE verify_signature(tx.public_key[1], TransferSignableMessage(tx),
                          tx.signature[1])

\* TransferTx::validate_with_state: the stateless checks, then the UTXO checks
validate_with_state(tx, st) ==
    IF TransferValidate(tx) # "Ok" THEN TransferValidate(tx)
    ELSE IF tx.input_hash \notin DOMAIN st.utxo_set THEN "TriangleNotFound"
    ELSE LET input_triangle == st.utxo_set[tx.input_hash]
             input_value == effective_value(input_triangle)
             total_spent == tx.amount + tx.fee_area
             remaining_value == input_value - total_spent
         IN  IF remaining_value < GEOMETRIC_TOLERANCE THEN "InvalidTransaction"
             ELSE IF input_triangle.owner # tx.sender THEN "InvalidTransaction"
             ELSE "Ok"

validate_signature(tx) ==
    IF tx.signature = None \/ tx.public_key = None THEN "InvalidTransaction"
    ELSE verify_signature(tx.public_key[1], SubdivisionSignableMessage(tx),
                          tx.signature[1])

\* a SubdivisionTx::validate without the comparison of the children's vertices
SubdivisionValidateNoGeometry(tx, st) ==
    IF validate_signature(tx) # "Ok" THEN validate_signature(tx)
    ELSE IF tx.parent_hash \notin DOMAIN st.utxo_set THEN "TriangleNotFound"
    ELSE IF st.utxo_set[tx.parent_hash].owner # tx.owner_address
         THEN "InvalidTransaction"
    ELSE IF Len(tx.children) # 3 THEN "InvalidTransaction"
    ELSE "Ok"

SubdivisionValidate(tx, st) ==
    IF validate_signature(tx) # "Ok" THEN validate_signature(tx)
    ELSE IF tx.parent_hash \notin DOMAIN st.utxo_set THEN "TriangleNotFound"
    ELSE LET parent == st.utxo_set[tx.parent_hash]
             expected_children == subdivide(parent)
         IN  IF parent.owner # tx.owner_address THEN "InvalidTransaction"
             ELSE IF Len(tx.children) # 3 THEN "InvalidTransaction"
             ELSE IF \E i \in 1..3 :
                        \/ ~PointEquals(tx.children[i].a, expected_children[i].a)
                        \/ ~PointEquals(tx.children[i].b, expected_children[i].b)
                        \/ ~PointEquals(tx.children[i].c, expected_children[i].c)
                  THEN "InvalidTransaction"
             ELSE "Ok"

\* Transaction::validate: the dispatch that apply_block calls
Validate(tx, st) ==
    CASE tx.kind = "Subdivision" -> SubdivisionValidate(tx, st)
      [] tx.kind = "Coinbase" -> CoinbaseValidate(tx)
      [] tx.kind = "Transfer" -> TransferValidate(tx)

(***************************************************************************)
(* UTXO state (src/src/blockchain/core/state.rs)                           *)
(***************************************************************************)
EmptyMap == [k \in {} |-> 0]

TriangleStateNew == [utxo_set |-> EmptyMap, address_balances |-> EmptyMap]

\* HashMap::insert
Insert(m, k, v) == [x \in DOMAIN m \cup {k} |-> IF x = k THEN v ELSE m[x]]

\* HashMap::remove
Remove(m, k) == [x \in DOMAIN m \ {k} |-> m[x]]

\* *entry(a).or_insert(0) += v
Credit(bal, a, v) == Insert(bal, a, CoordAdd(IF a \in DOMAIN bal THEN bal[a] ELSE 0, v))

\* *entry(a).or_insert(0) -= v, clamped at zero
DebitClamped(bal, a, v) ==
    LET b == CoordSub(IF a \in DOMAIN bal THEN bal[a] ELSE 0, v)
    IN  Insert(bal, a, IF b < 0 THEN 0 ELSE b)

get_balance(st, a) ==
    IF a \in DOMAIN st.address_balances THEN st.address_balances[a] ELSE 0

RECURSIVE SumValues(_)
SumValues(ts) ==
    IF ts = <<>> THEN 0
    ELSE CoordAdd(effective_value(Head(ts)), SumValues(Tail(ts)))

\* the loop that inserts the children of a subdivision, one after the other
RECURSIVE InsertChildren(_, _, _)
InsertChildren(st, children, owner) ==
    IF children = <<>> THEN st
    ELSE LET child == Head(children)
         IN  InsertChildren(
                [utxo_set |-> Insert(st.utxo_set, TriangleHash(child), child),
                 address_balances |->
                     Credit(st.address_balances, owner, effective_value(child))],
                Tail(children), owner)

\* the change transaction whose hash keys the change triangle
ChangeTx(tx, tx_hash, remaining_value) ==
    TransferTx(tx_hash, tx.sender, tx.sender, remaining_value, 0, tx.nonce + 1,
               None, None, Some(6))

ApplyCoinbase(st, tx) ==
    LET new_triangle ==
            with_effective_value(
                Triangle(Point(0, 0), Point(0, 0), Point(0, 0), None,
                         tx.beneficiary_address),
                tx.reward_area)
    IN  [err |-> "Ok",
         st |-> [utxo_set |-> Insert(st.utxo_set, TxHash(tx), new_triangle),
                 address_balances |->
                     Credit(st.address_balances, tx.beneficiary_address,
                            tx.reward_area)]]

ApplyTransfer(st, tx) ==
    IF tx.input_hash \notin DOMAIN st.utxo_set
    THEN [err |-> "TriangleNotFound", st |-> st]
    ELSE
    LET consumed_triangle == st.utxo_set[tx.input_hash]
        removed == Remove(st.utxo_set, tx.input_hash)
    IN  IF consumed_triangle.owner # tx.sender
        THEN [err |-> "InvalidTransaction",
              st |-> [st EXCEPT !.utxo_set =
                          Insert(removed, tx.input_hash, consumed_triangle)]]
        ELSE
        LET input_value == effective_value(consumed_triangle)
            total_spent == CoordAdd(tx.amount, tx.fee_area)
            remaining_value == CoordSub(input_value, total_spent)
            bal1 == DebitClamped(st.address_balances, tx.sender, input_value)
            new_owner_triangle ==
                with_effective_value(change_owner(consumed_triangle, tx.new_owner),
                                     tx.amount)
            tx_hash == TxHash(tx)
            utxo1 == Insert(removed, tx_hash, new_owner_triangle)
            bal2 == Credit(bal1, tx.new_owner, tx.amount)
        IN  IF remaining_value > GEOMETRIC_TOLERANCE
            THEN LET change_hash == TxHash(ChangeTx(tx, tx_hash, remaining_value))
                     change_triangle ==
                         with_effective_value(
                             change_owner(consumed_triangle, tx.sender),
                             remaining_value)
                 IN  [err |-> "Ok",
                      st |-> [utxo_set |-> Insert(utxo1, change_hash, change_triangle),
                              address_balances |->
                                  Credit(bal2, tx.sender, remaining_value)]]
            ELSE [err |-> "Ok",
                  st |-> [utxo_set |-> utxo1, address_balances |-> bal2]]

ApplySubdivision(st, tx) ==
    IF tx.parent_hash \notin DOMAIN st.utxo_set
    THEN [err |-> "TriangleNotFound", st |-> st]
    ELSE
    LET consumed_triangle == st.utxo_set[tx.parent_hash]
        removed == Remove(st.utxo_set, tx.parent_hash)
    IN  IF consumed_triangle.owner # tx.owner_address
        THEN [err |-> "InvalidTransaction",
              st |-> [st EXCEPT !.utxo_set =
                          Insert(removed, tx.parent_hash, consumed_triangle)]]
        ELSE
        LET parent_value == effective_value(consumed_triangle)
            bal1 == DebitClamped(st.address_balances, tx.owner_address, parent_value)
            total_child_value == SumValues(tx.children)
            expected_value == CoordSub(parent_value, tx.fee_area)
        IN  IF CoordAbs(CoordSub(total_child_value, expected_value))
                 > GEOMETRIC_TOLERANCE
            THEN [err |-> "InvalidTransaction",
                  st |-> [utxo_set |->
                              Insert(removed, tx.parent_hash, consumed_triangle),
                          address_balances |->
                              Credit(bal1, tx.owner_address, parent_value)]]
            ELSE [err |-> "Ok",
                  st |-> InsertChildren(
                             [utxo_set |-> removed, address_balances |-> bal1],
                             tx.children, tx.owner_address)]

\* TriangleState::apply_transaction
apply_transaction(st, tx) ==
    CASE tx.kind = "Coinbase" -> ApplyCoinbase(st, tx)
      [] tx.kind = "Transfer" -> ApplyTransfer(st, tx)
      [] tx.kind = "Subdivision" -> ApplySubdivision(st, tx)

(***************************************************************************)
(* Block and proof of work (src/src/blockchain/core/chain.rs)              *)
(***************************************************************************)
BlockHeader(height, timestamp, previous_hash, merkle_root, diff, nonce) ==
    [height |-> height, timestamp |-> timestamp, previous_hash |-> previous_hash,
     merkle_root |-> merkle_root, difficulty |-> diff, nonce |-> nonce]

\* BlockHeader::hash: the digest of the six header fields, in this order
HeaderHash(h) ==
    <<"block", h.height, h.timestamp, h.previous_hash, h.merkle_root,
      h.difficulty, h.nonce>>

BlockHash(b) == HeaderHash(b.header)

\* Block::calculate_merkle_root: one digest over the transaction hashes in order
calculate_merkle_root(transactions) ==
    <<"merkle", [i \in 1..Len(transactions) |-> TxHash(transactions[i])]>>

\* leading bytes of a block hash, most significant first
HeaderMix(h) ==
    h.nonce * 131 + h.height * 71 + h.timestamp * 37 + h.difficulty * 19
      + Len(h.merkle_root[2]) * 53 + Len(h.previous_hash) * 29

HashBytes(h) == [i \in 1..HashLen |-> (HeaderMix(h) * (2 * i - 1)) % 256]

\* this variant leaves out the partial byte of the target
hash_to_target_whole_bytes(d) ==
    [i \in 1..HashLen |-> IF i <= d \div 8 THEN 0 ELSE 255]

\* Block::hash_to_target
hash_to_target(d) ==
    LET leading_zeros == d \div 8
        partial_bits == d % 8
    IN  [i \in 1..HashLen |->
            IF i <= leading_zeros THEN 0
            ELSE IF i = leading_zeros + 1 /\ leading_zeros < HashLen
                    /\ partial_bits > 0
                 THEN 255 \div (2 ^ partial_bits)
            ELSE 255]

\* comparison of two byte arrays of equal length (derived Ord of [u8; 32])
RECURSIVE BytesLE(_, _)
BytesLE(x, y) ==
    IF x = <<>> THEN TRUE
    ELSE IF Head(x) < Head(y) THEN TRUE
    ELSE IF Head(x) > Head(y) THEN FALSE
    ELSE BytesLE(Tail(x), Tail(y))

\* verify_pow with a target that counts whole zero bytes only
verify_pow_whole_bytes(block) ==
    BytesLE(HashBytes(block.header),
            hash_to_target(8 * (block.header.difficulty \div 8)))

\* the comparison of verify_pow on the bytes of the hash
hash_meets_target(hash, d) == BytesLE(hash, hash_to_target(d))

\* Blockchain::verify_pow
verify_pow(block) ==
    hash_meets_target(HashBytes(block.header), block.header.difficulty)

Block(header, transactions) == [header |-> header, transactions |-> transactions]

(***************************************************************************)
(* Persistence, in-memory backend (src/src/persistence.rs)                 *)
(***************************************************************************)
InMemoryPersistenceNew ==
    [blocks |-> <<>>, state |-> TriangleStateNew, difficulty |-> 2]

\* Vec::retain
Retain(bs, height) == SelectSeq(bs, LAMBDA b : b.header.height # height)

save_blockchain_state(st, block, tstate, diff) ==
    [blocks |-> Append(Retain(st.blocks, block.header.height), block),
     state |-> tstate,
     difficulty |-> diff]

\* InMemoryPersistence::save_block
save_block(st, block) ==
    [st EXCEPT !.blocks = Append(Retain(st.blocks, block.header.height), block)]

(***************************************************************************)
(* Mempool: pending transactions keyed by hash                             *)
(***************************************************************************)
MempoolNew == EmptyMap

remove_transaction(mp, hash) == Remove(mp, hash)

\* a removal loop that stops after the first transaction of the block
RemoveFirst(mp, txs) ==
    IF txs = <<>> THEN mp ELSE remove_transaction(mp, TxHash(Head(txs)))

RECURSIVE RemoveAll(_, _)
RemoveAll(mp, txs) ==
    IF txs = <<>> THEN mp
    ELSE RemoveAll(remove_transaction(mp, TxHash(Head(txs))), Tail(txs))

(***************************************************************************)
(* Chain (src/src/blockchain/core/chain.rs,                                *)
(* src/src/blockchain/core/validation.rs)                                  *)
(***************************************************************************)
Last(s) == s[Len(s)]

\* the input a transaction consumes, if it consumes one
InputOf(tx) ==
    CASE tx.kind = "Transfer" -> Some(tx.input_hash)
      [] tx.kind = "Subdivision" -> Some(tx.parent_hash)
      [] tx.kind = "Coinbase" -> None

validate_no_double_spend(block) ==
    IF \E i, j \in 1..Len(block.transactions) :
          /\ i < j
          /\ InputOf(block.transactions[i]) # None
          /\ InputOf(block.transactions[i]) = InputOf(block.transactions[j])
    THEN "InvalidTransaction"
    ELSE "Ok"

\* the checks at the head of apply_block without the previous-hash comparison
CheckLinkageHeightOnly(bs, block) ==
    IF block.header.height # 0
    THEN IF bs = <<>> THEN "InvalidBlock"
         ELSE IF block.header.height # Last(bs).header.height + 1
              THEN "InvalidBlock"
         ELSE "Ok"
    ELSE IF bs # <<>> THEN "InvalidBlock"
    ELSE "Ok"

\* the height and previous-hash checks at the head of apply_block
CheckLinkage(bs, block) ==
    IF block.header.height # 0
    THEN IF bs = <<>> THEN "InvalidBlock"
         ELSE IF block.header.height # Last(bs).header.height + 1
              THEN "InvalidBlock"
         ELSE IF block.header.previous_hash # BlockHash(Last(bs))
              THEN "InvalidBlock"
         ELSE "Ok"
    ELSE IF bs # <<>> THEN "InvalidBlock"
    ELSE "Ok"

\* the transaction loop of apply_block over the shadow state; i is 1-based
RECURSIVE RunTransactions(_, _, _)
RunTransactions(txs, i, temp_state) ==
    IF i > Len(txs) THEN [err |-> "Ok", st |-> temp_state]
    ELSE LET tx == txs[i]
             checked ==
                 IF validate_size(tx) # "Ok" THEN validate_size(tx)
                 ELSE IF i = 1
                      THEN (IF tx.kind # "Coinbase" THEN "InvalidBlock" ELSE "Ok")
                      ELSE Validate(tx, temp_state)
         IN  IF checked # "Ok" THEN [err |-> checked, st |-> temp_state]
             ELSE LET applied == apply_transaction(temp_state, tx)
                  IN  IF applied.err # "Ok" THEN applied
                      ELSE RunTransactions(txs, i + 1, applied.st)

\* Blockchain::adjust_difficulty
adjust_difficulty(bs, diff) ==
    LET current_height == IF bs = <<>> THEN 0 ELSE Last(bs).header.height
    IN  IF current_height > 0 /\ current_height % DIFFICULTY_ADJUSTMENT_INTERVAL = 0
           /\ current_height - DIFFICULTY_ADJUSTMENT_INTERVAL + 1 <= Len(bs)
        THEN LET last_adjustment_block ==
                     bs[current_height - DIFFICULTY_ADJUSTMENT_INTERVAL + 1]
                 actual_time ==
                     Last(bs).header.timestamp - last_adjustment_block.header.timestamp
                 expected_time ==
                     (DIFFICULTY_ADJUSTMENT_INTERVAL * TARGET_BLOCK_TIME) * 1000
                 \* diff * clamp(actual / expected, 0.25, 4.0), truncated;
                 \* a negative difference wraps to a huge u64
                 new_difficulty ==
                     IF actual_time < 0 \/ actual_time > 4 * expected_time
                     THEN diff * 4
                     ELSE IF 4 * actual_time < expected_time THEN diff \div 4
                     ELSE (diff * actual_time) \div expected_time
             IN  IF new_difficulty < 1 THEN 1 ELSE new_difficulty
        ELSE diff

\* an early return of an apply_block that runs the transactions on self.state
\* instead of a clone
RejectInPlace(chain, err, temp_state) ==
    [result |-> err, blocks |-> chain.blocks, difficulty |-> chain.difficulty,
     mempool |-> chain.mempool, state |-> temp_state, store |-> chain.store]

\* an early return of apply_block: self is left as it was
Reject(chain, err, temp_state) ==
    [result |-> err, blocks |-> chain.blocks, difficulty |-> chain.difficulty,
     mempool |-> chain.mempool, state |-> chain.state, store |-> chain.store]

\* the commit at the tail of apply_block
Commit(chain, block, temp_state) ==
    LET bs == Append(chain.blocks, block)
    IN  [result |-> "Ok",
         blocks |-> bs,
         state |-> temp_state,
         mempool |-> RemoveAll(chain.mempool, block.transactions),
         store |-> save_blockchain_state(chain.store, block, temp_state,
                                         chain.difficulty),
         difficulty |-> adjust_difficulty(bs, chain.difficulty)]

\* Blockchain::apply_block
apply_block(chain, block) ==
    IF CheckLinkage(chain.blocks, block) # "Ok"
    THEN Reject(chain, "InvalidBlock", chain.state)
    ELSE IF ~verify_pow(block) THEN Reject(chain, "InvalidBlock", chain.state)
    ELSE IF validate_no_double_spend(block) # "Ok"
    THEN Reject(chain, validate_no_double_spend(block), chain.state)
    ELSE LET run == RunTransactions(block.transactions, 1, chain.state)
         IN  IF run.err # "Ok" THEN Reject(chain, run.err, run.st)
             ELSE IF calculate_merkle_root(block.transactions)
                       # block.header.merkle_root
             THEN Reject(chain, "InvalidBlock", run.st)
             ELSE Commit(chain, block, run.st)

\* nonce search of the miner: the least nonce that meets the target
mine_block(block) ==
    [block EXCEPT !.header.nonce =
        CHOOSE n \in 0..255 :
            /\ verify_pow([block EXCEPT !.header.nonce = n])
            /\ \A m \in 0..(n - 1) : ~verify_pow([block EXCEPT !.header.nonce = m])]

\* Blockchain::create_genesis_block
create_genesis_block(miner_address, initial_difficulty) ==
    LET transactions == <<CoinbaseTx(GENESIS_REWARD, miner_address, 0)>>
        header == BlockHeader(0, GENESIS_TIMESTAMP, ZeroHash,
                              calculate_merkle_root(transactions),
                              initial_difficulty, 0)
    IN  mine_block(Block(header, transactions))

\* the Blockchain value that new_with_persistence builds before it applies the
\* genesis block: no blocks, an empty state, a fresh in-memory backend
EmptyChain(initial_difficulty) ==
    [blocks |-> <<>>, difficulty |-> initial_difficulty, mempool |-> MempoolNew,
     state |-> TriangleStateNew, store |-> InMemoryPersistenceNew]

\* Blockchain::new: an empty chain on a fresh in-memory backend, then the
\* genesis block applied to it
BlockchainNew(genesis_miner_address, initial_difficulty) ==
    apply_block(EmptyChain(initial_difficulty),
                create_genesis_block(genesis_miner_address, initial_difficulty))

(***************************************************************************)
(* Inputs                                                                  *)
(***************************************************************************)
GenesisMiners == {1}
InitialDifficulties == {1}

OtherAddress(a) == IF a = 1 THEN 2 ELSE 1

\* a key of the UTXO map that no transaction of the model produces
MissingKey == <<"coinbase", 0, ZeroAddress, 7>>

SignedTransfer(input_hash, new_owner, sender, amount, fee_area, signer) ==
    LET unsigned == TransferTx(input_hash, new_owner, sender, amount, fee_area,
                               0, None, None, None)
    IN  [unsigned EXCEPT
            !.signature = Some(Sign(signer, TransferSignableMessage(unsigned))),
            !.public_key = Some(PublicKeyBytes(signer))]

SignedSubdivision(parent_hash, children, owner_address, fee_area, signer) ==
    LET unsigned == SubdivisionTx(parent_hash, children, owner_address, fee_area,
                                  0, None, None)
    IN  [unsigned EXCEPT
            !.signature = Some(Sign(signer, SubdivisionSignableMessage(unsigned))),
            !.public_key = Some(PublicKeyBytes(signer))]

\* the transfer a wallet builds on the UTXO k: one quantum to the other
\* address, one quantum of fee, signed by the owner
PlainTransfer(st, k) ==
    LET o == st.utxo_set[k].owner
    IN  SignedTransfer(k, OtherAddress(o), o, 1, 1, KeyOf(o))

\* the subdivision a wallet builds on the UTXO k
PlainSubdivision(st, k) ==
    LET t == st.utxo_set[k]
    IN  SignedSubdivision(k, subdivide(t), t.owner, 0, KeyOf(t.owner))

\* well-signed transfers on k by its owner with other amounts: all but
\* GEOMETRIC_TOLERANCE, and one quantum more than the input holds
AmountTransfers(st, k) ==
    LET t == st.utxo_set[k]
        o == t.owner
        v == effective_value(t)
    IN  {SignedTransfer(k, OtherAddress(o), o, a, 0, KeyOf(o)) :
            a \in {v - GEOMETRIC_TOLERANCE, v + 1}}

\* transfers on k with one defect each
FaultyTransfers(st, k) ==
    LET t == st.utxo_set[k]
        o == t.owner
        p == OtherAddress(o)
        good == PlainTransfer(st, k)
    IN  { SignedTransfer(k, o, p, 1, 1, KeyOf(p)),
          SignedTransfer(k, p, o, 1, 1, KeyOf(p)),
          [good EXCEPT !.signature = None, !.public_key = None],
          [good EXCEPT !.amount = 2],
          [good EXCEPT !.input_hash = MissingKey],
          SignedTransfer(MissingKey, p, o, 1, 1, KeyOf(o)),
          SignedTransfer(k, ZeroAddress, o, 1, 1, KeyOf(o)),
          SignedTransfer(k, o, o, 1, 1, KeyOf(o)),
          SignedTransfer(k, p, o, 0, 0, KeyOf(o)),
          SignedTransfer(k, p, o, 0 - 1, 2, KeyOf(o)),
          SignedTransfer(k, p, o, 2, 0 - 1, KeyOf(o)),
          [good EXCEPT !.memo = Some(MAX_MEMO_LENGTH + 1)],
          [good EXCEPT !.memo = Some(MAX_TRANSACTION_SIZE)],
          [good EXCEPT !.public_key = Some([len |-> PUBLIC_KEY_SIZE - 1,
                                            key |-> KeyOf(o)])] }

\* subdivisions of k with one deviation each
FaultySubdivisions(st, k) ==
    LET t == st.utxo_set[k]
        o == t.owner
        p == OtherAddress(o)
        kids == subdivide(t)
    IN  { SignedSubdivision(k, kids, o, 1, KeyOf(o)),
          SignedSubdivision(k, kids, o, 0, KeyOf(p)),
          SignedSubdivision(k, kids, p, 0, KeyOf(p)),
          SignedSubdivision(k, SubSeq(kids, 1, 2), o, 0, KeyOf(o)),
          SignedSubdivision(k, [kids EXCEPT ![1] = with_effective_value(
                                    kids[1], effective_value(kids[1]) + 3)],
                            o, 0, KeyOf(o)),
          SignedSubdivision(k, [kids EXCEPT ![1].b = Point(1, 0)], o, 0, KeyOf(o)),
          SignedSubdivision(k, [i \in 1..3 |-> change_owner(kids[i], p)],
                            o, 0, KeyOf(o)),
          SignedSubdivision(k, [kids EXCEPT ![1] = with_effective_value(
                                    kids[1], effective_value(kids[1]) + 1)],
                            o, 0, KeyOf(o)),
          [PlainSubdivision(st, k) EXCEPT !.signature = None] }

PlainTransfers(st) == {PlainTransfer(st, k) : k \in DOMAIN st.utxo_set}

PlainTxs(st) ==
    PlainTransfers(st) \cup {PlainSubdivision(st, k) : k \in DOMAIN st.utxo_set}

SingleTxs(st) ==
    PlainTxs(st)
    \cup UNION {AmountTransfers(st, k) \cup FaultyTransfers(st, k)
                   \cup FaultySubdivisions(st, k) : k \in DOMAIN st.utxo_set}

\* the coinbase the mining task builds (Node::start_mining): the block
\* reward to the miner, nonce 0
MinedCoinbase == CoinbaseTx(INITIAL_REWARD, 1, 0)

\* the coinbase of the genesis block of miner 1
GenesisCoinbase == CoinbaseTx(GENESIS_REWARD, 1, 0)

OtherCoinbases ==
    { GenesisCoinbase,
      CoinbaseTx(0, ZeroAddress, 1),
      CoinbaseTx(INITIAL_REWARD, 2, 1) }

\* the transfers and subdivisions already included in the chain bs
IncludedTxs(bs) ==
    UNION {{bs[i].transactions[j] : j \in {n \in 1..Len(bs[i].transactions) :
                                               bs[i].transactions[n].kind # "Coinbase"}} :
              i \in 1..Len(bs)}

\* transaction lists of candidate blocks: a coinbase alone, a coinbase and
\* one transaction, a coinbase and two wallet-built transactions, a coinbase
\* and a transaction that the chain bs already holds
TransactionLists(bs, st) ==
    {<<MinedCoinbase>>}
    \cup {<<c, t>> : c \in {MinedCoinbase, GenesisCoinbase}, t \in IncludedTxs(bs)}
    \cup {<<MinedCoinbase, t>> : t \in SingleTxs(st) \cup OtherCoinbases}
    \cup {<<MinedCoinbase, t, u>> : t \in PlainTxs(st), u \in PlainTxs(st)}
    \cup {<<c>> : c \in OtherCoinbases}
    \cup {<<GenesisCoinbase, t>> : t \in PlainTransfers(st)}

\* lists without a leading coinbase, and the shortest well-formed ones
ShortLists(st) ==
    {<<>>, <<MinedCoinbase>>}
    \cup {<<t>> : t \in PlainTransfers(st)}
    \cup {<<MinedCoinbase, t>> : t \in PlainTransfers(st)}

Timestamps == {GENESIS_TIMESTAMP + 1}

Nonces == {0, 1}

\* the header a miner builds on the chain bs for the list txs
MinerHeader(bs, diff, txs) ==
    BlockHeader(Last(bs).header.height + 1, GENESIS_TIMESTAMP + 1,
                BlockHash(Last(bs)), calculate_merkle_root(txs), diff, 0)

GoodHeaders(bs, diff, txs) ==
    {[MinerHeader(bs, diff, txs) EXCEPT !.nonce = n, !.timestamp = ts] :
        n \in Nonces, ts \in Timestamps}

\* the miner's header with one field off
FaultyHeaders(bs, diff, txs) ==
    LET good == MinerHeader(bs, diff, txs)
    IN  {[good EXCEPT !.nonce = n, !.height = h] :
            n \in Nonces, h \in {0, good.height + 1}}
        \cup {[good EXCEPT !.nonce = n, !.previous_hash = ph] :
                n \in Nonces, ph \in {ZeroHash, BlockHash(bs[1])}}
        \cup {[good EXCEPT !.nonce = n,
                           !.merkle_root = calculate_merkle_root(<<GenesisCoinbase>>)] :
                n \in Nonces}
        \cup {[good EXCEPT !.difficulty = 0]}

\* the candidate blocks offered to apply_block
CandidateBlocks(bs, diff, st) ==
    UNION {{Block(h, txs) : h \in GoodHeaders(bs, diff, txs)} :
              txs \in TransactionLists(bs, st)}
    \cup UNION {{Block(h, txs) : h \in GoodHeaders(bs, diff, txs)
                                      \cup FaultyHeaders(bs, diff, txs)} :
                   txs \in ShortLists(st)}

HasDoubleSpend(txs) ==
    \E i, j \in 1..Len(txs) :
        /\ i < j
        /\ InputOf(txs[i]) # None
        /\ InputOf(txs[i]) = InputOf(txs[j])

\* the Node of the API server before start_mining and with no request in
\* flight: no mining task, the chain lock free
NodeIdle ==
    [is_mining |-> FALSE, task |-> "none", aborted |-> FALSE, candidate |-> None,
     guard |-> "none", stop |-> "idle", ingress |-> "idle", submitted |-> None]

\* NodeSynchronizer::new
SyncIdle ==
    [peers |-> [k \in {} |-> 0], pending_blocks |-> <<>>, guard |-> "none",
     calls |-> [k \in {} |-> 0], returned |-> <<>>, queued |-> <<>>,
     sync_state |-> "Idle", sync_call |-> None]

(***************************************************************************)
(* Specification                                                           *)
(***************************************************************************)
\* no thread is inside the persistence backend
ThreadsIdle ==
    [backend |-> "memory", saver |-> "idle", save_failed |-> FALSE,
     loader |-> "idle", overlapped |-> FALSE, returned |-> None,
     poisoned |-> {}, saved |-> {}]

Chain ==
    [blocks |-> blocks, difficulty |-> difficulty, mempool |-> mempool,
     state |-> state, store |-> store]

Init ==
    \E m \in GenesisMiners, d \in InitialDifficulties :
        LET r == BlockchainNew(m, d)
        IN  /\ r.result = "Ok"
            /\ blocks = r.blocks
            /\ difficulty = r.difficulty
            /\ mempool = r.mempool
            /\ state = r.state
            /\ store = r.store
            /\ last = [result |-> "None", double_spend |-> FALSE]
            /\ node = NodeIdle
            /\ sync = SyncIdle
            /\ origin = None
            /\ threads = ThreadsIdle

\* a call of Blockchain::apply_block with any candidate block; last holds
\* the result returned to the caller
ApplyBlock ==
    /\ blocks # <<>>
    /\ Len(blocks) < MaxBlocks
    /\ last.result = "None"
    /\ \E block \in CandidateBlocks(blocks, difficulty, state) :
         LET r == apply_block(Chain, block)
         IN  /\ blocks' = r.blocks
             /\ difficulty' = r.difficulty
             /\ mempool' = r.mempool
             /\ state' = r.state
             /\ store' = r.store
             /\ last' = [result |-> r.result,
                         double_spend |-> HasDoubleSpend(block.transactions)]
             /\ UNCHANGED <<origin, threads, node, sync>>

\* the caller of apply_block takes the result (a log line, a broadcast) and
\* goes on
HandleResult ==
    /\ last.result # "None"
    /\ last' = [result |-> "None", double_spend |-> FALSE]
    /\ UNCHANGED <<blocks, difficulty, mempool, state, store, origin, threads, node, sync>>

\* the transactions submitted to the mempool
SubmittedTxs(st) == {PlainTransfer(st, k) : k \in {TxHash(GenesisCoinbase)}
                                                     \cap DOMAIN st.utxo_set}

\* Mempool::add_transaction: duplicates and a full pool are refused
AddTransaction ==
    /\ Len(blocks) < MaxBlocks
    /\ \E tx \in SubmittedTxs(state) :
         /\ TxHash(tx) \notin DOMAIN mempool
         /\ Cardinality(DOMAIN mempool) < MaxMempool
         /\ mempool' = Insert(mempool, TxHash(tx), tx)
    /\ UNCHANGED <<blocks, difficulty, state, store, last, origin, threads, node, sync>>

Next == ApplyBlock \/ HandleResult \/ AddTransaction

Spec == Init /\ [][Next]_vars

(***************************************************************************)
(* Properties                                                              *)
(***************************************************************************)
RECURSIVE SumOwned(_, _, _)
\* sum of effective_value over the triangles under the keys ks owned by a
SumOwned(utxo, ks, a) ==
    IF ks = {} THEN 0
    ELSE LET k == CHOOSE x \in ks : TRUE
         IN  (IF utxo[k].owner = a THEN effective_value(utxo[k]) ELSE 0)
               + SumOwned(utxo, ks \ {k}, a)

RECURSIVE TotalValue(_, _)
\* sum of effective_value over the triangles under the keys ks
TotalValue(utxo, ks) ==
    IF ks = {} THEN 0
    ELSE LET k == CHOOSE x \in ks : TRUE
         IN  effective_value(utxo[k]) + TotalValue(utxo, ks \ {k})

AllAddresses == Addresses \cup {ZeroAddress}

\* a step in which apply_block accepted a block
Accepted == last.result = "None" /\ last'.result = "Ok"

\* a step in which apply_block returned an error
Rejected == last.result = "None" /\ last'.result \notin {"None", "Ok"}

\* the shadow state of apply_block before the transaction at index i (1-based)
RECURSIVE ShadowBefore(_, _, _)
ShadowBefore(st, txs, i) ==
    IF i <= 1 THEN st
    ELSE apply_transaction(ShadowBefore(st, txs, i - 1), txs[i - 1]).st

RECURSIVE CoinbaseRewards(_)
\* the reward_area of the coinbases of a transaction list, summed
CoinbaseRewards(txs) ==
    IF txs = <<>> THEN 0
    ELSE (IF Head(txs).kind = "Coinbase" THEN Head(txs).reward_area ELSE 0)
           + CoinbaseRewards(Tail(txs))

\* C1: for every address the balance index equals the sum of effective_value
\* over the triangles of the UTXO set that the address owns.
C1_BalanceLaw ==
    \A a \in AllAddresses :
        get_balance(state, a) = SumOwned(state.utxo_set, DOMAIN state.utxo_set, a)

\* C2: an accepted block raises the total effective_value of the UTXO set by
\* at most the reward_area of the coinbase it carries.
C2_ValueConserved ==
    [][Accepted =>
          TotalValue(state'.utxo_set, DOMAIN state'.utxo_set)
            <= TotalValue(state.utxo_set, DOMAIN state.utxo_set)
                 + CoinbaseRewards(Last(blocks').transactions)]_vars

\* C3: every Transfer of a block of the chain carries a signature that
\* verifies over its signable payload under its public_key, and the address
\* derived from that public_key is its sender.
C3_TransferSignedBySender ==
    \A i \in 1..Len(blocks) :
        \A j \in 1..Len(blocks[i].transactions) :
            LET tx == blocks[i].transactions[j]
            IN  tx.kind = "Transfer" =>
                  /\ tx.signature # None /\ tx.public_key # None
                  /\ verify_signature(tx.public_key[1], TransferSignableMessage(tx),
                                      tx.signature[1]) = "Ok"
                  /\ KeyAddress(tx.public_key[1].key) = tx.sender

\* C4: every Transfer of an accepted block passed the stateful check against
\* the shadow UTXO set: the input is there, the sender owns it, and the input
\* value less amount and fee is at least GEOMETRIC_TOLERANCE.
C4_StatefulTransferCheck ==
    [][Accepted =>
          LET txs == Last(blocks').transactions
          IN  \A i \in 2..Len(txs) :
                  txs[i].kind = "Transfer" =>
                    LET shadow == ShadowBefore(state, txs, i)
                    IN  /\ txs[i].input_hash \in DOMAIN shadow.utxo_set
                        /\ shadow.utxo_set[txs[i].input_hash].owner = txs[i].sender
                        /\ effective_value(shadow.utxo_set[txs[i].input_hash])
                             - (txs[i].amount + txs[i].fee_area)
                             >= GEOMETRIC_TOLERANCE]_vars

\* the value of the change triangle that applying tx has left in st
ChangeValue(st, tx, remaining) ==
    LET change_hash == TxHash(ChangeTx(tx, TxHash(tx), remaining))
    IN  IF change_hash \in DOMAIN st.utxo_set
        THEN effective_value(st.utxo_set[change_hash])
        ELSE 0

\* C5: for every Transfer of an accepted block the input value equals amount
\* plus fee plus the value of the change triangle, and the change is either
\* absent or greater than GEOMETRIC_TOLERANCE.
C5_TransferConservation ==
    [][Accepted =>
          LET txs == Last(blocks').transactions
          IN  \A i \in 2..Len(txs) :
                  txs[i].kind = "Transfer" =>
                    LET before == ShadowBefore(state, txs, i)
                        after == ShadowBefore(state, txs, i + 1)
                        input_value ==
                            effective_value(before.utxo_set[txs[i].input_hash])
                        change ==
                            ChangeValue(after, txs[i],
                                        input_value - txs[i].amount - txs[i].fee_area)
                    IN  /\ input_value = txs[i].amount + txs[i].fee_area + change
                        /\ change = 0 \/ change > GEOMETRIC_TOLERANCE]_vars

\* C6: a block in which two transactions consume the same input, and whose
\* header passes the linkage and proof-of-work checks that come first, is
\* rejected with the error kind DoubleSpendDetected.
C6_DoubleSpendKind ==
    (last.double_spend /\ last.result \notin {"None", "InvalidBlock"})
        => last.result = "DoubleSpendDetected"

\* the places (block, index) of the chain that hold a transfer or subdivision
SpendPlaces ==
    {p \in (1..Len(blocks)) \X (1..3) :
        /\ p[2] <= Len(blocks[p[1]].transactions)
        /\ blocks[p[1]].transactions[p[2]].kind # "Coinbase"}

\* C7: no transfer or subdivision is included in the chain twice.
C7_ConsumedStaysDead ==
    \A p, q \in SpendPlaces :
        p # q => TxHash(blocks[p[1]].transactions[p[2]])
                   # TxHash(blocks[q[1]].transactions[q[2]])

\* C8: when apply_block returns an error, the block list, the UTXO state,
\* the difficulty, the mempool and the persistence backend are as before.
C8_ErrorLeavesStateUntouched ==
    [][Rejected => UNCHANGED <<blocks, state, difficulty, mempool, store>>]_vars

\* a block was rejected inside the transaction loop, after the shadow state
\* had taken its coinbase, on a chain of two blocks with a pending transaction
C8_Witness ==
    /\ last.result \in {"TriangleNotFound", "CryptoError"}
    /\ DOMAIN mempool # {}
    /\ Len(blocks) >= 2

\* C9: every block after the first names the hash of its predecessor and has
\* the predecessor's height plus one.
C9_Linkage ==
    \A i \in 2..Len(blocks) :
        /\ blocks[i].header.previous_hash = BlockHash(blocks[i - 1])
        /\ blocks[i].header.height = blocks[i - 1].header.height + 1

C9_Witness == Len(blocks) >= 3 /\ last.result = "Ok"

\* C10: every block of the chain carries the merkle root of its transactions
\* and a hash that is at most the target of its own header difficulty.
C10_MerkleAndPow ==
    \A i \in 1..Len(blocks) :
        /\ blocks[i].header.merkle_root
             = calculate_merkle_root(blocks[i].transactions)
        /\ BytesLE(HashBytes(blocks[i].header),
                   hash_to_target(blocks[i].header.difficulty))

C10_Witness ==
    /\ last.result = "Ok"
    /\ Len(blocks) >= 2
    /\ Last(blocks).header.difficulty >= 1
    /\ Len(Last(blocks).transactions) >= 2

\* C12: every block accepted by apply_block has a transaction list that is not
\* empty and starts with a Coinbase.
C12_CoinbaseFirst ==
    [][Accepted =>
          LET txs == Last(blocks').transactions
          IN  txs # <<>> /\ txs[1].kind = "Coinbase"]_vars

\* C13: every Coinbase of a block of the chain after genesis has a reward_area
\* in (0, MAX_REWARD_AREA] and a beneficiary other than the zero address.
C13_CoinbaseBounds ==
    \A i \in 2..Len(blocks) :
        \A j \in 1..Len(blocks[i].transactions) :
            LET tx == blocks[i].transactions[j]
            IN  tx.kind = "Coinbase" =>
                  /\ 0 < tx.reward_area
                  /\ tx.reward_area <= MAX_REWARD_AREA
                  /\ tx.beneficiary_address # ZeroAddress

\* C20: a zero-fee Subdivision of an accepted block removes the parent entry,
\* leaves three child entries (two entries more than before), each child worth
\* a third of the parent within GEOMETRIC_TOLERANCE, and leaves the balance of
\* the owner as it was.
C20_SubdivisionEffect ==
    [][Accepted =>
          LET txs == Last(blocks').transactions
          IN  \A i \in 2..Len(txs) :
                  (txs[i].kind = "Subdivision" /\ txs[i].fee_area = 0) =>
                    LET before == ShadowBefore(state, txs, i)
                        after == ShadowBefore(state, txs, i + 1)
                        parent == before.utxo_set[txs[i].parent_hash]
                        owner == txs[i].owner_address
                    IN  /\ txs[i].parent_hash \notin DOMAIN after.utxo_set
                        /\ Cardinality(DOMAIN after.utxo_set)
                             = Cardinality(DOMAIN before.utxo_set) + 2
                        /\ \A c \in 1..3 :
                             LET h == TriangleHash(txs[i].children[c])
                             IN  /\ h \in DOMAIN after.utxo_set
                                 /\ Abs(3 * effective_value(after.utxo_set[h])
                                          - effective_value(parent))
                                      <= 3 * GEOMETRIC_TOLERANCE
                        /\ get_balance(after, owner) = get_balance(before, owner)]_vars

(***************************************************************************)
(* apply_block on an empty chain                                           *)
(***************************************************************************)
\* the blocks offered to apply_block on the empty chain: the genesis block of
\* create_genesis_block, and that block with one field changed and mined again
GenesisCandidates(diff) ==
    LET good == create_genesis_block(1, diff)
    IN  { good,
          mine_block([good EXCEPT !.header.previous_hash = BlockHash(good)]),
          mine_block([good EXCEPT !.header.height = 1]),
          mine_block([good EXCEPT !.header.height = 1,
                                  !.header.previous_hash = BlockHash(good)]),
          [good EXCEPT !.header.merkle_root = calculate_merkle_root(<<>>)],
          [good EXCEPT !.header.nonce = good.header.nonce + 1] }

\* the empty Blockchain of new_with_persistence (fields are public)
InitEmpty ==
    \E d \in InitialDifficulties :
        /\ blocks = EmptyChain(d).blocks
        /\ difficulty = EmptyChain(d).difficulty
        /\ mempool = EmptyChain(d).mempool
        /\ state = EmptyChain(d).state
        /\ store = EmptyChain(d).store
        /\ last = [result |-> "None", double_spend |-> FALSE]
        /\ node = NodeIdle
        /\ sync = SyncIdle
        /\ origin = None
        /\ threads = ThreadsIdle

\* a call of Blockchain::apply_block on the empty chain
ApplyGenesisBlock ==
    /\ blocks = <<>>
    /\ last.result = "None"
    /\ \E block \in GenesisCandidates(difficulty) :
         LET r == apply_block(Chain, block)
         IN  /\ blocks' = r.blocks
             /\ difficulty' = r.difficulty
             /\ mempool' = r.mempool
             /\ state' = r.state
             /\ store' = r.store
             /\ last' = [result |-> r.result,
                         double_spend |-> HasDoubleSpend(block.transactions)]
             /\ UNCHANGED <<origin, threads, node, sync>>

NextEmpty == ApplyGenesisBlock \/ ApplyBlock \/ HandleResult \/ AddTransaction

SpecEmpty == InitEmpty /\ [][NextEmpty]_vars

\* C11: on an empty chain apply_block accepts only a block of height 0 with
\* the all-zero previous_hash; on a chain with blocks only a block with the
\* height of the last block plus one and the hash of the last block as
\* previous_hash.
C11_LinkageContract ==
    [][Accepted =>
          LET b == Last(blocks')
          IN  IF blocks = <<>>
              THEN /\ b.header.height = 0
                   /\ b.header.previous_hash = ZeroHash
              ELSE /\ b.header.height = Last(blocks).header.height + 1
                   /\ b.header.previous_hash = BlockHash(Last(blocks))]_vars

(***************************************************************************)
(* Mining across retarget heights                                          *)
(***************************************************************************)
MaxMinedBlocks == 21

\* InMemoryPersistence::load_blockchain
load_blockchain(st) ==
    IF st.blocks = <<>> THEN BlockchainNew(ZeroAddress, 2)
    ELSE [result |-> "Ok", blocks |-> st.blocks, difficulty |-> st.difficulty,
          mempool |-> MempoolNew, state |-> st.state, store |-> st]

\* the subtraction of the two u64 timestamps in adjust_difficulty underflows
adjust_difficulty_underflows(bs) ==
    LET current_height == IF bs = <<>> THEN 0 ELSE Last(bs).header.height
    IN  /\ current_height > 0
        /\ current_height % DIFFICULTY_ADJUSTMENT_INTERVAL = 0
        /\ current_height - DIFFICULTY_ADJUSTMENT_INTERVAL + 1 <= Len(bs)
        /\ current_height - DIFFICULTY_ADJUSTMENT_INTERVAL + 1 >= 1
        /\ Last(bs).header.timestamp
             < bs[current_height - DIFFICULTY_ADJUSTMENT_INTERVAL + 1].header.timestamp

\* apply_block in a build with overflow checks (overflow_checks = TRUE) or
\* without: where the subtraction underflows the checked build panics after
\* the commit and the save, before the difficulty is assigned
apply_block_build(chain, block, overflow_checks) ==
    LET r == apply_block(chain, block)
    IN  IF /\ r.result = "Ok"
           /\ overflow_checks
           /\ adjust_difficulty_underflows(Append(chain.blocks, block))
        THEN [r EXCEPT !.result = "Panic", !.difficulty = chain.difficulty]
        ELSE r

\* milliseconds between a block and its predecessor: the blocks at retarget
\* heights come after one of these delays (or a clock set back), the others
\* at once
TimestampDeltas(height) ==
    IF height % DIFFICULTY_ADJUSTMENT_INTERVAL = 0
    THEN {0 - 1, 60000, 150000, 300000, 450000, 1500000}
    ELSE {0}

\* the block the mining task builds on the chain bs (Block::new, then the
\* nonce search)
MinedBlock(bs, diff, delta) ==
    LET txs == <<MinedCoinbase>>
        header == BlockHeader(Last(bs).header.height + 1,
                              Last(bs).header.timestamp + delta,
                              BlockHash(Last(bs)), calculate_merkle_root(txs),
                              diff, 0)
    IN  mine_block(Block(header, txs))

\* one round of the mining task: build a block, mine it, apply it
MineBlock ==
    /\ blocks # <<>>
    /\ Len(blocks) < MaxMinedBlocks
    /\ last.result = "None"
    /\ \E delta \in TimestampDeltas(Last(blocks).header.height + 1),
          overflow_checks \in BOOLEAN :
         \E block \in {MinedBlock(blocks, difficulty, delta)} :
         \E r \in {apply_block_build(Chain, block, overflow_checks)} :
             /\ blocks' = r.blocks
             /\ difficulty' = r.difficulty
             /\ mempool' = r.mempool
             /\ state' = r.state
             /\ store' = r.store
             /\ last' = [result |-> r.result, double_spend |-> FALSE]
             /\ UNCHANGED <<origin, threads, node, sync>>

NextRetarget == MineBlock \/ HandleResult

SpecRetarget == Init /\ [][NextRetarget]_vars

\* C14: load_blockchain on the backend of the chain returns the blocks, the
\* UTXO entries, the balance index and the difficulty of the live chain.
C14_RoundTrip ==
    last.result # "Panic" =>
        LET loaded == load_blockchain(store)
        IN  /\ loaded.blocks = blocks
            /\ loaded.state.utxo_set = state.utxo_set
            /\ loaded.state.address_balances = state.address_balances
            /\ loaded.difficulty = difficulty

\* C18: apply_block returns Ok or Err for every block; it never panics.
C18_Total == last.result # "Panic"

\* round(current * clamp(actual / expected, 0.25, 4.0)), at least 1
RoundedRetarget(current, actual, expected) ==
    LET rounded ==
            IF 4 * actual < expected THEN (current + 2) \div 4
            ELSE IF actual > 4 * expected THEN 4 * current
            ELSE (2 * current * actual + expected) \div (2 * expected)
    IN  IF rounded < 1 THEN 1 ELSE rounded

\* C19: after an accepted block at a height h > 0 divisible by 10 the
\* difficulty is max(1, round(current * clamp(actual / expected, 0.25, 4.0)))
\* with actual the timestamp of block h less that of block h - 10 and
\* expected 300000 ms; after a block at any other height it is unchanged.
C19_Retarget ==
    [][Accepted =>
          LET h == Last(blocks').header.height
          IN  IF h > 0 /\ h % DIFFICULTY_ADJUSTMENT_INTERVAL = 0
              THEN difficulty'
                     = RoundedRetarget(
                           difficulty,
                           blocks'[h + 1].header.timestamp
                             - blocks'[h - 9].header.timestamp,
                           300000)
              ELSE difficulty' = difficulty]_vars

(***************************************************************************)
(* A backend whose save_blockchain_state can fail                          *)
(***************************************************************************)
\* apply_block on a backend whose save_blockchain_state returns
\* Err(DatabaseError) when save_ok is FALSE (the SQL transaction is rolled
\* back, the store keeps its rows); `let _ =` drops the error
apply_block_save(chain, block, save_ok) ==
    LET r == apply_block(chain, block)
    IN  IF r.result = "Ok" /\ ~save_ok THEN [r EXCEPT !.store = chain.store]
        ELSE r

\* a call of Blockchain::apply_block while the backend may fail
ApplyBlockSave ==
    /\ blocks # <<>>
    /\ Len(blocks) < MaxBlocks
    /\ last.result = "None"
    /\ \E block \in CandidateBlocks(blocks, difficulty, state), save_ok \in BOOLEAN :
         \E r \in {apply_block_save(Chain, block, save_ok)} :
             /\ blocks' = r.blocks
             /\ difficulty' = r.difficulty
             /\ mempool' = r.mempool
             /\ state' = r.state
             /\ store' = r.store
             /\ last' = [result |-> r.result,
                         double_spend |-> HasDoubleSpend(block.transactions)]
             /\ UNCHANGED <<origin, threads, node, sync>>

NextSave == ApplyBlockSave \/ HandleResult \/ AddTransaction

SpecSave == Init /\ [][NextSave]_vars

\* C16: apply_block returns Ok only if the save of the block succeeded, that
\* is, only if the block is in the store when apply_block returns.
C16_SaveErrorSurfaces ==
    [][Accepted => /\ store'.blocks # <<>>
                   /\ Last(store'.blocks) = Last(blocks')]_vars

(***************************************************************************)
(* Restart: a chain obtained from load_blockchain of a store               *)
(***************************************************************************)
\* Database::load_blockchain: with no rows it returns Blockchain::new([0; 32], 0),
\* a chain on a fresh in-memory backend; with rows it locks self.conn a second
\* time while the first guard is alive, and that call does not return
database_load_blockchain(st) ==
    IF st.blocks = <<>> THEN BlockchainNew(ZeroAddress, 0)
    ELSE [result |-> "NoReturn", blocks |-> <<>>, difficulty |-> 0,
          mempool |-> MempoolNew, state |-> TriangleStateNew, store |-> st]

\* Persistence::load_blockchain of either backend
StoreLoad(backend, st) ==
    IF backend = "memory" THEN load_blockchain(st) ELSE database_load_blockchain(st)

\* the loaded chain writes to the store it was loaded from only through
\* `persistence: Box::new(self.clone())` of the in-memory backend
Shared(backend, st) == backend = "memory" /\ st.blocks # <<>>

Origin(backend, st) ==
    Some([backend |-> backend, shared |-> Shared(backend, st), st |-> st])

\* the contents of the store the chain was loaded from
OriginStore == IF origin[1].shared THEN store ELSE origin[1].st

\* the stores found at start: a new one, and one written by an earlier run
StoresOnDisk == {InMemoryPersistenceNew, BlockchainNew(1, 1).store}

InitLoaded ==
    \E backend \in {"memory", "database"}, st \in StoresOnDisk :
        \E r \in {StoreLoad(backend, st)} :
            /\ r.result = "Ok"
            /\ blocks = r.blocks
            /\ difficulty = r.difficulty
            /\ mempool = r.mempool
            /\ state = r.state
            /\ store = r.store
            /\ last = [result |-> "None", double_spend |-> FALSE]
            /\ node = NodeIdle
            /\ sync = SyncIdle
            /\ origin = Origin(backend, st)
            /\ threads = ThreadsIdle

\* the node stops and starts again: the chain is loaded from the store anew
Restart ==
    /\ origin # None
    /\ last.result = "None"
    /\ \E st \in {OriginStore} :
       \E r \in {StoreLoad(origin[1].backend, st)} :
            /\ r.result = "Ok"
            /\ blocks' = r.blocks
            /\ difficulty' = r.difficulty
            /\ mempool' = r.mempool
            /\ state' = r.state
            /\ store' = r.store
            /\ origin' = Origin(origin[1].backend, st)
            /\ UNCHANGED <<last, threads, node, sync>>

NextRestart == ApplyBlock \/ HandleResult \/ AddTransaction \/ Restart

SpecRestart == InitLoaded /\ [][NextRestart]_vars

\* C15: a block that apply_block accepts on a chain obtained from
\* load_blockchain of a store is in that store when apply_block returns.
C15_DurableMirror ==
    [][Accepted =>
          \E i \in 1..Len(OriginStore'.blocks) :
              OriginStore'.blocks[i] = Last(blocks')]_vars

(***************************************************************************)
(* A load_blockchain that runs beside apply_block                          *)
(*                                                                         *)
(* One thread is in Blockchain::apply_block and so in save_blockchain_state *)
(* of the backend, another calls load_blockchain on a handle of the same   *)
(* store.  threads.saver and threads.loader are the positions of the two   *)
(* threads: the last mutex guard each has taken.                           *)
(***************************************************************************)
Locks == {"blocks", "state", "difficulty"}

\* a save_blockchain_state that drops each guard before it takes the next
SaveGuardsDropped(pc) == IF pc = "state" THEN {"state"} ELSE {}

\* the guards InMemoryPersistence::save_blockchain_state holds at pc: each
\* lives to the end of the function
SaveGuards(pc) ==
    IF pc = "idle" THEN {}
    ELSE IF pc = "blocks" THEN {"blocks"}
    ELSE {"blocks", "state"}

\* the guards InMemoryPersistence::load_blockchain holds at pc
LoadGuards(pc) ==
    IF pc = "blocks" THEN {"blocks"}
    ELSE IF pc = "state" THEN {"blocks", "state"}
    ELSE {}

\* what load_blockchain hands back
Loaded(result, st) ==
    Some([result |-> result, blocks |-> st.blocks, state |-> st.state,
          difficulty |-> st.difficulty])

InitThreads ==
    \E m \in GenesisMiners, d \in InitialDifficulties,
       backend \in {"memory", "database"} :
        \E r \in {BlockchainNew(m, d)} :
            /\ r.result = "Ok"
            /\ blocks = r.blocks
            /\ difficulty = r.difficulty
            /\ mempool = r.mempool
            /\ state = r.state
            /\ store = r.store
            /\ last = [result |-> "None", double_spend |-> FALSE]
            /\ node = NodeIdle
            /\ sync = SyncIdle
            /\ origin = None
            /\ threads = [ThreadsIdle EXCEPT !.backend = backend,
                                             !.saved = {r.store}]

\* the tail of apply_block after save_blockchain_state has returned
\* (Ok or Err, `let _ =` drops it): adjust_difficulty and Ok(())
FinishApply(save_failed) ==
    /\ difficulty' = adjust_difficulty(blocks', difficulty)
    /\ last' = [result |-> "Ok", double_spend |-> FALSE]
    /\ threads' = [threads EXCEPT !.saver = "idle",
                                  !.save_failed = save_failed]

\* apply_block of a mined block up to the first lock of
\* InMemoryPersistence::save_blockchain_state: self.blocks, self.state and the
\* mempool are assigned, then blocks.retain and blocks.push under the guard
SaveLockBlocks ==
    /\ threads.backend = "memory"
    /\ threads.saver = "idle"
    /\ last.result = "None"
    /\ Len(blocks) < MaxBlocks
    /\ "blocks" \notin LoadGuards(threads.loader)
    /\ \E block \in {MinedBlock(blocks, difficulty, 0)} :
       \E r \in {apply_block(Chain, block)} :
            /\ r.result = "Ok"
            /\ blocks' = r.blocks
            /\ state' = r.state
            /\ mempool' = r.mempool
            /\ UNCHANGED <<origin, node, sync>>
            /\ IF "blocks" \in threads.poisoned
               THEN /\ UNCHANGED store
                    /\ FinishApply(TRUE)
               ELSE /\ store' = [store EXCEPT
                                    !.blocks = Append(Retain(store.blocks,
                                                             block.header.height),
                                                      block)]
                    /\ threads' = [threads EXCEPT
                                      !.saver = "blocks",
                                      !.saved = @ \cup {r.store}]
                    /\ UNCHANGED <<difficulty, last>>

\* self.state.lock() and `*st = state.clone()`
SaveLockState ==
    /\ threads.saver = "blocks"
    /\ "state" \notin LoadGuards(threads.loader)
    /\ UNCHANGED <<blocks, state, mempool, origin, node, sync>>
    /\ IF "state" \in threads.poisoned
       THEN /\ UNCHANGED store
            /\ FinishApply(TRUE)
       ELSE /\ store' = [store EXCEPT !.state = state]
            /\ threads' = [threads EXCEPT !.saver = "state"]
            /\ UNCHANGED <<difficulty, last>>

\* self.difficulty.lock(), `*diff = difficulty as u32`, Ok(()); the guards are
\* dropped and apply_block goes on
SaveLockDifficulty ==
    /\ threads.saver = "state"
    /\ UNCHANGED <<blocks, state, mempool, origin, node, sync>>
    /\ IF "difficulty" \in threads.poisoned
       THEN /\ UNCHANGED store
            /\ FinishApply(TRUE)
       ELSE /\ store' = [store EXCEPT !.difficulty = difficulty]
            /\ FinishApply(FALSE)

\* apply_block of a mined block on the SQLite backend:
\* Database::save_blockchain_state runs under the conn mutex in one SQL
\* transaction; an error before the commit rolls it back
DatabaseSave ==
    /\ threads.backend = "database"
    /\ threads.saver = "idle"
    /\ threads.loader # "stuck"
    /\ last.result = "None"
    /\ Len(blocks) < MaxBlocks
    /\ \E block \in {MinedBlock(blocks, difficulty, 0)}, save_ok \in BOOLEAN :
       \E r \in {apply_block(Chain, block)} :
            /\ r.result = "Ok"
            /\ blocks' = r.blocks
            /\ state' = r.state
            /\ mempool' = r.mempool
            /\ difficulty' = r.difficulty
            /\ last' = [result |-> "Ok", double_spend |-> FALSE]
            /\ UNCHANGED <<origin, node, sync>>
            /\ IF save_ok /\ threads.poisoned = {}
               THEN /\ store' = r.store
                    /\ threads' = [threads EXCEPT !.saved = @ \cup {r.store},
                                                  !.save_failed = FALSE]
               ELSE /\ UNCHANGED store
                    /\ threads' = [threads EXCEPT !.save_failed = TRUE]

\* another thread calls load_blockchain on its handle of the store
LoadCall ==
    /\ threads.loader = "idle"
    /\ threads' = [threads EXCEPT !.loader = "called",
                                  !.overlapped = threads.saver # "idle"]
    /\ UNCHANGED <<blocks, difficulty, mempool, state, store, last, origin, node, sync>>

\* InMemoryPersistence::load_blockchain: self.blocks.lock()
LoadLockBlocks ==
    /\ threads.backend = "memory"
    /\ threads.loader = "called"
    /\ "blocks" \notin SaveGuards(threads.saver)
    /\ threads' =
          IF "blocks" \in threads.poisoned
          THEN [threads EXCEPT !.loader = "returned",
                               !.returned = Loaded("Err", InMemoryPersistenceNew)]
          ELSE IF store.blocks = <<>>
          THEN [threads EXCEPT !.loader = "returned",
                               !.returned = Loaded("Ok", BlockchainNew(ZeroAddress, 2).store)]
          ELSE [threads EXCEPT !.loader = "blocks"]
    /\ UNCHANGED <<blocks, difficulty, mempool, state, store, last, origin, node, sync>>

\* self.state.lock()
LoadLockState ==
    /\ threads.loader = "blocks"
    /\ "state" \notin SaveGuards(threads.saver)
    /\ threads' =
          IF "state" \in threads.poisoned
          THEN [threads EXCEPT !.loader = "returned",
                               !.returned = Loaded("Err", InMemoryPersistenceNew)]
          ELSE [threads EXCEPT !.loader = "state"]
    /\ UNCHANGED <<blocks, difficulty, mempool, state, store, last, origin, node, sync>>

\* `*self.difficulty.lock()`, the clones of blocks and state, Ok(blockchain)
LoadReturn ==
    /\ threads.loader = "state"
    /\ threads' =
          IF "difficulty" \in threads.poisoned
          THEN [threads EXCEPT !.loader = "returned",
                               !.returned = Loaded("Err", InMemoryPersistenceNew)]
          ELSE [threads EXCEPT !.loader = "returned",
                               !.returned = Loaded("Ok", store)]
    /\ UNCHANGED <<blocks, difficulty, mempool, state, store, last, origin, node, sync>>

\* Database::load_blockchain: with rows in the table it locks self.conn again
\* while it holds the guard; the second lock never returns, it blocks for
\* ever or it panics and poisons the mutex
DatabaseLoad ==
    /\ threads.backend = "database"
    /\ threads.loader = "called"
    /\ \E panics \in BOOLEAN :
         threads' =
             IF threads.poisoned # {}
             THEN [threads EXCEPT !.loader = "returned",
                                  !.returned = Loaded("Err", InMemoryPersistenceNew)]
             ELSE IF store.blocks = <<>>
             THEN [threads EXCEPT !.loader = "returned",
                                  !.returned = Loaded("Ok", BlockchainNew(ZeroAddress, 0).store)]
             ELSE IF panics
             THEN [threads EXCEPT !.loader = "idle", !.poisoned = {"conn"}]
             ELSE [threads EXCEPT !.loader = "stuck"]
    /\ UNCHANGED <<blocks, difficulty, mempool, state, store, last, origin, node, sync>>

\* the caller of load_blockchain takes the result
LoadDone ==
    /\ threads.loader = "returned"
    /\ threads' = [threads EXCEPT !.loader = "idle", !.returned = None,
                                  !.overlapped = FALSE]
    /\ UNCHANGED <<blocks, difficulty, mempool, state, store, last, origin, node, sync>>

\* a thread that holds a clone of one of the pub Arc<Mutex<..>> fields panics
\* with the guard: the mutex is poisoned from then on
PoisonLock ==
    /\ threads.backend = "memory"
    /\ threads.poisoned = {}
    /\ \E l \in Locks \ (SaveGuards(threads.saver) \cup LoadGuards(threads.loader)) :
         threads' = [threads EXCEPT !.poisoned = {l}]
    /\ UNCHANGED <<blocks, difficulty, mempool, state, store, last, origin, node, sync>>

NextThreads ==
    \/ SaveLockBlocks
    \/ SaveLockState
    \/ SaveLockDifficulty
    \/ DatabaseSave
    \/ HandleResult
    \/ LoadCall
    \/ LoadLockBlocks
    \/ LoadLockState
    \/ LoadReturn
    \/ DatabaseLoad
    \/ LoadDone
    \/ PoisonLock

SpecThreads == InitThreads /\ [][NextThreads]_vars

\* C17: a load_blockchain that returns Ok returns the blocks, the UTXO state
\* and the difficulty of one save_blockchain_state call, never the block of
\* one call with the state or the difficulty of another.
C17_AllOrNothing ==
    (threads.returned # None /\ threads.returned[1].result = "Ok") =>
        [blocks |-> threads.returned[1].blocks,
         state |-> threads.returned[1].state,
         difficulty |-> threads.returned[1].difficulty] \in threads.saved

\* a load_blockchain called while a save was under way has returned the
\* chain with the new block
C17_Witness ==
    /\ threads.returned # None
    /\ threads.returned[1].result = "Ok"
    /\ threads.overlapped
    /\ threads.returned[1].blocks = blocks
    /\ Len(blocks) > 1

(***************************************************************************)
(* Subdivisions in accepted blocks                                         *)
(***************************************************************************)
\* the child has the vertices of the expected child, in order
SameVertices(child, expected) ==
    child.a = expected.a /\ child.b = expected.b /\ child.c = expected.c

\* C21: every Subdivision of an accepted block has its parent in the shadow
\* UTXO set, is made by the parent's owner, has exactly 3 children, and each
\* child has exactly the vertices of the child that subdivide gives.
C21_SubdivisionChecked ==
    [][Accepted =>
          LET txs == Last(blocks').transactions
          IN  \A i \in 1..Len(txs) :
                  txs[i].kind = "Subdivision" =>
                      LET shadow == ShadowBefore(state, txs, i)
                      IN  /\ txs[i].parent_hash \in DOMAIN shadow.utxo_set
                          /\ shadow.utxo_set[txs[i].parent_hash].owner
                               = txs[i].owner_address
                          /\ Len(txs[i].children) = 3
                          /\ \A j \in 1..3 :
                                 SameVertices(
                                     txs[i].children[j],
                                     subdivide(shadow.utxo_set[txs[i].parent_hash])[j])]_vars

\* a block with a Subdivision has been accepted
C21_Witness ==
    /\ last.result = "Ok"
    /\ \E i \in 1..Len(Last(blocks).transactions) :
           Last(blocks).transactions[i].kind = "Subdivision"

(***************************************************************************)
(* TriangleState::apply_transaction called on the state                    *)
(***************************************************************************)
MaxApplied == 2

\* the running sum of the children's values leaves the range of Coord
RECURSIVE SumOverflows(_, _)
SumOverflows(ts, acc) ==
    IF ts = <<>> THEN FALSE
    ELSE \/ OutOfRange(acc + effective_value(Head(ts)))
         \/ SumOverflows(Tail(ts), CoordAdd(acc, effective_value(Head(ts))))

\* one of the `+=` on the balance entry leaves the range while the values vs
\* are credited in turn
RECURSIVE CreditsOverflow(_, _)
CreditsOverflow(balance, vs) ==
    IF vs = <<>> THEN FALSE
    ELSE \/ OutOfRange(balance + Head(vs))
         \/ CreditsOverflow(CoordAdd(balance, Head(vs)), Tail(vs))

\* the value to which `-=` and the clamp at zero bring a balance
Clamped(balance, v) == IF CoordSub(balance, v) < 0 THEN 0 ELSE CoordSub(balance, v)

CoinbaseOverflows(st, tx) ==
    OutOfRange(get_balance(st, tx.beneficiary_address) + tx.reward_area)

TransferOverflows(st, tx) ==
    /\ tx.input_hash \in DOMAIN st.utxo_set
    /\ st.utxo_set[tx.input_hash].owner = tx.sender
    /\ LET input_value == effective_value(st.utxo_set[tx.input_hash])
           total_spent == CoordAdd(tx.amount, tx.fee_area)
           remaining_value == CoordSub(input_value, total_spent)
           debited == [st EXCEPT !.address_balances =
                           DebitClamped(st.address_balances, tx.sender, input_value)]
       IN  \/ OutOfRange(tx.amount + tx.fee_area)
           \/ OutOfRange(input_value - total_spent)
           \/ OutOfRange(get_balance(st, tx.sender) - input_value)
           \/ CreditsOverflow(get_balance(debited, tx.new_owner), <<tx.amount>>)
           \/ /\ remaining_value > GEOMETRIC_TOLERANCE
              /\ OutOfRange(get_balance(debited, tx.sender) + remaining_value)

SubdivisionOverflows(st, tx) ==
    /\ tx.parent_hash \in DOMAIN st.utxo_set
    /\ st.utxo_set[tx.parent_hash].owner = tx.owner_address
    /\ LET parent_value == effective_value(st.utxo_set[tx.parent_hash])
           total_child_value == SumValues(tx.children)
           expected_value == CoordSub(parent_value, tx.fee_area)
           difference == CoordSub(total_child_value, expected_value)
           balance == get_balance(st, tx.owner_address)
       IN  \/ OutOfRange(balance - parent_value)
           \/ SumOverflows(tx.children, 0)
           \/ OutOfRange(parent_value - tx.fee_area)
           \/ OutOfRange(total_child_value - expected_value)
           \/ OutOfRange(Abs(difference))
           \/ IF CoordAbs(difference) > GEOMETRIC_TOLERANCE
              THEN OutOfRange(Clamped(balance, parent_value) + parent_value)
              ELSE CreditsOverflow(Clamped(balance, parent_value),
                                   [i \in 1..Len(tx.children) |->
                                       effective_value(tx.children[i])])

\* an operation on Coord in apply_transaction(st, tx) overflows
Overflows(st, tx) ==
    CASE tx.kind = "Coinbase" -> CoinbaseOverflows(st, tx)
      [] tx.kind = "Transfer" -> TransferOverflows(st, tx)
      [] tx.kind = "Subdivision" -> SubdivisionOverflows(st, tx)

\* apply_transaction in either build: with overflow checks the first
\* overflowing operation panics, without them it wraps
apply_transaction_build(st, tx, overflow_checks) ==
    IF overflow_checks /\ Overflows(st, tx) THEN [err |-> "Panic", st |-> st]
    ELSE apply_transaction(st, tx)

\* a child value c of which three wrap around to the parent's value:
\* 3 * c is one full turn of Coord above it, within the tolerance
WrappingThird(parent_value) ==
    CHOOSE c \in 0..CoordMax :
        Abs(3 * c - (CoordMax - CoordMin + 1) - parent_value) <= GEOMETRIC_TOLERANCE

\* a well-signed subdivision of k whose children carry that value
WrappingSubdivision(st, k) ==
    LET t == st.utxo_set[k]
        c == WrappingThird(effective_value(t))
    IN  SignedSubdivision(k, [i \in 1..3 |-> with_effective_value(subdivide(t)[i], c)],
                          t.owner, 0, KeyOf(t.owner))

\* a well-signed subdivision of k whose children carry uneven values that
\* add up to the parent's: minus twice, twice and once its value
SkewedSubdivision(st, k) ==
    LET t == st.utxo_set[k]
        v == effective_value(t)
        kids == subdivide(t)
    IN  SignedSubdivision(k, << with_effective_value(kids[1], 0 - 2 * v),
                                with_effective_value(kids[2], 2 * v),
                                with_effective_value(kids[3], v) >>,
                          t.owner, 0, KeyOf(t.owner))

\* the transactions handed to apply_transaction
AppliedTxs(st) ==
    {MinedCoinbase, CoinbaseTx(INITIAL_REWARD, 2, 1), CoinbaseTx(CoordMax, 1, 2)}
    \cup UNION {{PlainTransfer(st, k), PlainSubdivision(st, k),
                 WrappingSubdivision(st, k), SkewedSubdivision(st, k)}
                   \cup AmountTransfers(st, k) \cup FaultyTransfers(st, k)
                   \cup FaultySubdivisions(st, k) : k \in DOMAIN st.utxo_set}

\* the state of a new chain; last also holds the transaction and the number
\* of calls so far
InitState ==
    \E m \in GenesisMiners, d \in InitialDifficulties :
        \E r \in {BlockchainNew(m, d)} :
            /\ r.result = "Ok"
            /\ blocks = r.blocks
            /\ difficulty = r.difficulty
            /\ mempool = r.mempool
            /\ state = r.state
            /\ store = r.store
            /\ last = [result |-> "None", double_spend |-> FALSE,
                       tx |-> GenesisCoinbase, applied |-> 0]
            /\ node = NodeIdle
            /\ sync = SyncIdle
            /\ origin = None
            /\ threads = ThreadsIdle

\* a call of TriangleState::apply_transaction on the state of the chain
ApplyTransaction ==
    /\ last.result # "Panic"
    /\ last.applied < MaxApplied
    /\ \E tx \in AppliedTxs(state), overflow_checks \in BOOLEAN :
       \E r \in {apply_transaction_build(state, tx, overflow_checks)} :
            /\ state' = r.st
            /\ last' = [result |-> r.err, double_spend |-> FALSE, tx |-> tx,
                        applied |-> last.applied + 1]
    /\ UNCHANGED <<blocks, difficulty, mempool, store, origin, threads, node, sync>>

NextState == ApplyTransaction

SpecState == InitState /\ [][NextState]_vars

\* a step in which apply_transaction returned Ok for a transaction of the kind
AppliedOk(kind) == last'.result = "Ok" /\ last'.tx.kind = kind

\* the sum of the children's values, as a number
RECURSIVE ExactSum(_)
ExactSum(ts) == IF ts = <<>> THEN 0 ELSE effective_value(Head(ts)) + ExactSum(Tail(ts))

\* C22: for every Subdivision that apply_transaction applies, the children's
\* values and the fee add up to the parent's value within GEOMETRIC_TOLERANCE.
C22_SubdivisionConserves ==
    [][AppliedOk("Subdivision") =>
          Abs(ExactSum(last'.tx.children) + last'.tx.fee_area
                - effective_value(state.utxo_set[last'.tx.parent_hash]))
            <= GEOMETRIC_TOLERANCE]_vars

\* a step in which apply_transaction returned an error
ApplyFailed == last'.applied = last.applied + 1 /\ last'.result \notin {"Ok", "Panic"}

\* C23: when apply_transaction returns an error, the UTXO set and the balance
\* index are as they were on entry to the call.
C23_FailureLeavesState ==
    [][ApplyFailed => /\ state'.utxo_set = state.utxo_set
                      /\ state'.address_balances = state.address_balances]_vars

(***************************************************************************)
(* Mempool eviction on inclusion                                           *)
(***************************************************************************)
\* C24: after apply_block has returned Ok for a block, no transaction of the
\* block is in the mempool of the chain.
C24_IncludedLeaveMempool ==
    [][Accepted =>
          \A i \in 1..Len(Last(blocks').transactions) :
              TxHash(Last(blocks').transactions[i]) \notin DOMAIN mempool']_vars

\* a block with a transaction that wallets submit to the mempool has been
\* accepted, and the mempool is empty
C24_Witness ==
    /\ last.result = "Ok"
    /\ mempool = MempoolNew
    /\ \E i \in 1..Len(Last(blocks).transactions) :
           Last(blocks).transactions[i] \in SubmittedTxs(BlockchainNew(1, 1).state)

(***************************************************************************)
(* The effect of a Transfer and of a Coinbase on the state                 *)
(***************************************************************************)
\* C25: a valid Transfer of amount A and fee F on an input of value V removes
\* the input, puts an output of value A owned by new_owner under the
\* transaction hash, puts a change triangle of value V - A - F owned by the
\* sender when that exceeds GEOMETRIC_TOLERANCE, raises the recipient's
\* balance by A and lowers the sender's by A + F.
C25_TransferEffect ==
    [][(AppliedOk("Transfer") /\ validate_with_state(last'.tx, state) = "Ok") =>
          LET tx == last'.tx
              V == effective_value(state.utxo_set[tx.input_hash])
              remaining == V - tx.amount - tx.fee_area
              change_hash == TxHash(ChangeTx(tx, TxHash(tx), remaining))
          IN  /\ tx.input_hash \notin DOMAIN state'.utxo_set
              /\ TxHash(tx) \in DOMAIN state'.utxo_set
              /\ effective_value(state'.utxo_set[TxHash(tx)]) = tx.amount
              /\ state'.utxo_set[TxHash(tx)].owner = tx.new_owner
              /\ remaining > GEOMETRIC_TOLERANCE =>
                     /\ change_hash \in DOMAIN state'.utxo_set
                     /\ effective_value(state'.utxo_set[change_hash]) = remaining
                     /\ state'.utxo_set[change_hash].owner = tx.sender
              /\ get_balance(state', tx.new_owner)
                   = get_balance(state, tx.new_owner) + tx.amount
              /\ get_balance(state', tx.sender)
                   = get_balance(state, tx.sender) - (tx.amount + tx.fee_area)]_vars

\* the state after genesis with miner 1: balance GENESIS_REWARD, one UTXO
GenesisFacts ==
    last.applied = 0 =>
        /\ get_balance(state, 1) = GENESIS_REWARD
        /\ Cardinality(DOMAIN state.utxo_set) = 1

\* C26: a Coinbase adds exactly one new UTXO under its hash, owned by the
\* beneficiary and worth reward_area, removes and replaces no other UTXO and
\* raises the beneficiary's balance by reward_area; after genesis the miner's
\* balance is GENESIS_REWARD and there is one UTXO.
C26_CoinbaseEffect ==
    /\ GenesisFacts
    /\ [][AppliedOk("Coinbase") =>
             LET tx == last'.tx
             IN  /\ TxHash(tx) \notin DOMAIN state.utxo_set
                 /\ DOMAIN state'.utxo_set = DOMAIN state.utxo_set \cup {TxHash(tx)}
                 /\ \A k \in DOMAIN state.utxo_set :
                        state'.utxo_set[k] = state.utxo_set[k]
                 /\ state'.utxo_set[TxHash(tx)].owner = tx.beneficiary_address
                 /\ effective_value(state'.utxo_set[TxHash(tx)]) = tx.reward_area
                 /\ get_balance(state', tx.beneficiary_address)
                      = get_balance(state, tx.beneficiary_address) + tx.reward_area]_vars

(***************************************************************************)
(* The mining task, stop_mining and submit_transaction on the chain lock   *)
(* (src/src/api.rs).  Tasks run on a multi-threaded runtime: a task that   *)
(* is aborted stops where it is suspended at an await, or the next time it *)
(* suspends; an await that is ready at once does not suspend it.           *)
(***************************************************************************)
\* the orders in which Mempool::get_all_transactions may list the pool
MempoolLists(mp) ==
    LET orders == {s \in [1..Cardinality(DOMAIN mp) -> DOMAIN mp] :
                      \A i, j \in DOMAIN s : i # j => s[i] # s[j]}
    IN  {[i \in DOMAIN s |-> mp[s[i]]] : s \in orders}

\* the candidate the mining task builds under the read guard: the coinbase
\* and the transactions of the mempool on the current tip
NodeCandidate(bs, diff, transactions) ==
    LET all_txs == <<MinedCoinbase>> \o transactions
    IN  Block(MinerHeader(bs, diff, all_txs), all_txs)

\* the awaits at which the mining task is suspended
MinerSuspended == {"read_wait", "write_wait", "broadcast", "sleep"}

InitNode ==
    \E miner \in GenesisMiners, d \in InitialDifficulties :
        LET r == BlockchainNew(miner, d)
        IN  /\ r.result = "Ok"
            /\ blocks = r.blocks
            /\ difficulty = r.difficulty
            /\ mempool = r.mempool
            /\ state = r.state
            /\ store = r.store
            /\ last = [result |-> "None", double_spend |-> FALSE]
            /\ node = NodeIdle
            /\ sync = SyncIdle
            /\ origin = None
            /\ threads = ThreadsIdle

\* Node::start_mining: the flag is swapped to true and the task is spawned
StartMining ==
    /\ ~node.is_mining
    /\ node.task \in {"none", "finished", "aborted"}
    /\ node.stop # "sleep"
    /\ node' = [node EXCEPT !.is_mining = TRUE, !.task = "top",
                            !.aborted = FALSE, !.stop = "idle"]
    /\ UNCHANGED <<blocks, difficulty, mempool, state, store, last, origin, threads, sync>>

\* the read guard is taken, the candidate is built and the guard is dropped
BuildCandidate ==
    /\ Len(blocks) < MaxBlocks
    /\ \E transactions \in MempoolLists(mempool) :
         node' = [node EXCEPT
                     !.task = "mining",
                     !.candidate = Some(NodeCandidate(blocks, difficulty, transactions))]

\* the head of the mining loop: the flag is read, then the chain is read
MinerTop ==
    /\ node.task = "top"
    /\ IF ~node.is_mining
       THEN node' = [node EXCEPT !.task = "finished", !.is_mining = FALSE]
       ELSE IF node.guard # "none"
       THEN node' = [node EXCEPT !.task = "read_wait"]
       ELSE BuildCandidate
    /\ UNCHANGED <<blocks, difficulty, mempool, state, store, last, origin, threads, sync>>

\* the task suspended at blockchain.read().await is woken
MinerReadWake ==
    /\ node.task = "read_wait"
    /\ ~node.aborted
    /\ node.guard = "none"
    /\ BuildCandidate
    /\ UNCHANGED <<blocks, difficulty, mempool, state, store, last, origin, threads, sync>>

\* the write guard is taken and the mined block applied; on Ok the task goes
\* on to broadcast_block(..).await with the guard still in scope
MinerApply(block) ==
    \E r \in {apply_block(Chain, block)} :
        /\ blocks' = r.blocks
        /\ difficulty' = r.difficulty
        /\ mempool' = r.mempool
        /\ state' = r.state
        /\ store' = r.store
        /\ last' = [result |-> r.result, double_spend |-> FALSE]
        /\ node' = [node EXCEPT
                       !.candidate = None,
                       !.task = IF r.result = "Ok" THEN "broadcast" ELSE "sleep",
                       !.guard = IF r.result = "Ok" THEN "miner" ELSE "none"]

\* miner::mine_block returns; the task reaches blockchain.write().await
MinerMined ==
    /\ node.task = "mining"
    /\ \E block \in {mine_block(node.candidate[1])} :
         IF node.guard # "none"
         THEN /\ node' = [node EXCEPT !.task = "write_wait",
                                      !.candidate = Some(block)]
              /\ UNCHANGED <<blocks, difficulty, mempool, state, store, last>>
         ELSE MinerApply(block)
    /\ UNCHANGED <<origin, threads, sync>>

\* the task suspended at blockchain.write().await is woken
MinerWriteWake ==
    /\ node.task = "write_wait"
    /\ ~node.aborted
    /\ node.guard = "none"
    /\ \E block \in {node.candidate[1]} : MinerApply(block)
    /\ UNCHANGED <<origin, threads, sync>>

\* broadcast_block returns: the write guard goes out of scope and the task
\* sleeps
MinerBroadcastDone ==
    /\ node.task = "broadcast"
    /\ ~node.aborted
    /\ node' = [node EXCEPT !.task = "sleep", !.guard = "none"]
    /\ UNCHANGED <<blocks, difficulty, mempool, state, store, last, origin, threads, sync>>

\* the sleep between two rounds ends
MinerWake ==
    /\ node.task = "sleep"
    /\ ~node.aborted
    /\ node' = [node EXCEPT !.task = "top"]
    /\ UNCHANGED <<blocks, difficulty, mempool, state, store, last, origin, threads, sync>>

\* the runtime drops the aborted task where it is suspended: its candidate
\* and its guard are dropped with it
MinerCancelled ==
    /\ node.aborted
    /\ node.task \in MinerSuspended
    /\ node' = [node EXCEPT !.task = "aborted", !.candidate = None,
                            !.guard = IF @ = "miner" THEN "none" ELSE @]
    /\ UNCHANGED <<blocks, difficulty, mempool, state, store, last, origin, threads, sync>>

\* Node::stop_mining up to its sleep: the flag is swapped to false and the
\* task handle is taken
StopMining ==
    /\ node.is_mining
    /\ node.stop # "sleep"
    /\ node' = [node EXCEPT !.is_mining = FALSE, !.stop = "sleep"]
    /\ UNCHANGED <<blocks, difficulty, mempool, state, store, last, origin, threads, sync>>

\* the task is aborted if it is still alive
StopAborts(task) == task \notin {"finished", "aborted"}

\* stop_mining after its sleep: the task is aborted if it has not finished
\* and Ok is returned
StopReturn ==
    /\ node.stop = "sleep"
    /\ node' = [node EXCEPT !.stop = "ok",
                            !.aborted = @ \/ StopAborts(node.task)]
    /\ UNCHANGED <<blocks, difficulty, mempool, state, store, last, origin, threads, sync>>

\* submit_transaction with the write guard: Mempool::add_transaction, and on
\* Ok the handler goes on to api_stats.write().await with the guard in scope
IngressAdd(tx) ==
    IF TxHash(tx) \in DOMAIN mempool \/ Cardinality(DOMAIN mempool) >= MaxMempool
    THEN /\ node' = [node EXCEPT !.ingress = "idle", !.submitted = None]
         /\ UNCHANGED mempool
    ELSE /\ mempool' = Insert(mempool, TxHash(tx), tx)
         /\ node' = [node EXCEPT !.ingress = "stats", !.guard = "ingress",
                                 !.submitted = Some(tx)]

\* a call of submit_transaction with one of txs reaches
\* blockchain.write().await
SubmitCall(txs) ==
    /\ node.ingress = "idle"
    /\ \E tx \in txs :
         IF node.guard # "none"
         THEN /\ node' = [node EXCEPT !.ingress = "write_wait",
                                      !.submitted = Some(tx)]
              /\ UNCHANGED mempool
         ELSE IngressAdd(tx)
    /\ UNCHANGED <<blocks, difficulty, state, store, last, origin, threads, sync>>

\* submit_transaction with a transfer a wallet built on the current state
SubmitTransaction ==
    \E txs \in {SubmittedTxs(state)} : SubmitCall(txs)

\* the handler suspended at blockchain.write().await is woken
IngressWriteWake ==
    /\ node.ingress = "write_wait"
    /\ node.guard = "none"
    /\ \E tx \in {node.submitted[1]} : IngressAdd(tx)
    /\ UNCHANGED <<blocks, difficulty, state, store, last, origin, threads, sync>>

\* the statistics are updated; the handler reaches
\* broadcast_transaction(..).await
IngressStats ==
    /\ node.ingress = "stats"
    /\ node' = [node EXCEPT !.ingress = "broadcast"]
    /\ UNCHANGED <<blocks, difficulty, mempool, state, store, last, origin, threads, sync>>

\* broadcast_transaction returns and the handler with it: the guard is
\* dropped
IngressDone ==
    /\ node.ingress = "broadcast"
    /\ node' = [node EXCEPT !.ingress = "idle", !.guard = "none",
                            !.submitted = None]
    /\ UNCHANGED <<blocks, difficulty, mempool, state, store, last, origin, threads, sync>>

NextNode ==
    \/ StartMining
    \/ MinerTop
    \/ MinerReadWake
    \/ MinerMined
    \/ MinerWriteWake
    \/ MinerBroadcastDone
    \/ MinerWake
    \/ MinerCancelled
    \/ StopMining
    \/ StopReturn
    \/ SubmitTransaction
    \/ IngressWriteWake
    \/ IngressStats
    \/ IngressDone

SpecNode == InitNode /\ [][NextNode]_vars

\* C27: once stop_mining has returned Ok (and mining has not been started
\* again) the mining task applies no block to the chain, takes no chain
\* lock and builds no candidate.
C27_StopHonoured ==
    [][(node.stop = "ok" /\ node'.stop = "ok") =>
          /\ blocks' = blocks
          /\ (node'.guard = "miner" => node.guard = "miner")
          /\ (node'.candidate # None => node.candidate # None)]_vars

\* C28: no chain guard is held across an await: neither the mining task nor
\* the submit_transaction handler is suspended (on a broadcast, on another
\* lock) while it holds the chain's guard.
C28_NoGuardAcrossAwait ==
    /\ node.task \in MinerSuspended => node.guard # "miner"
    /\ node.ingress \in {"write_wait", "stats", "broadcast"} => node.guard # "ingress"

(***************************************************************************)
(* Peer health in the NodeSynchronizer (src/src/sync.rs)                   *)
(***************************************************************************)
MaxSyncCalls == 4

PeerAddrs == {"127.0.0.1:8333", "127.0.0.2:8334"}

\* PeerSyncInfo::new; history is the record of the peer's successes and
\* failures since it was registered, kept for the properties
PeerSyncInfoNew ==
    [blocks_received |-> 0, sync_failures |-> 0, is_syncing |-> FALSE,
     history |-> <<>>]

\* PeerSyncInfo::is_unreliable
is_unreliable(peer) == peer.sync_failures >= 3

\* NodeSynchronizer::new beside a fresh chain
InitPeers == Init

\* NodeSynchronizer::register_peer
RegisterPeer ==
    /\ \E addr \in PeerAddrs \ DOMAIN sync.peers :
         sync' = [sync EXCEPT !.peers = Insert(@, addr, PeerSyncInfoNew)]
    /\ UNCHANGED <<blocks, difficulty, mempool, state, store, last, origin, threads, node>>

\* NodeSynchronizer::remove_peer
RemovePeer ==
    /\ \E addr \in DOMAIN sync.peers :
         sync' = [sync EXCEPT !.peers = Remove(@, addr)]
    /\ UNCHANGED <<blocks, difficulty, mempool, state, store, last, origin, threads, node>>

\* NodeSynchronizer::record_block_received
RecordBlockReceived ==
    /\ \E addr \in DOMAIN sync.peers :
         /\ Len(sync.peers[addr].history) < MaxSyncCalls
         /\ sync' = [sync EXCEPT
                        !.peers[addr].blocks_received = @ + 1,
                        !.peers[addr].history = Append(@, "received")]
    /\ UNCHANGED <<blocks, difficulty, mempool, state, store, last, origin, threads, node>>

\* NodeSynchronizer::record_sync_failure
RecordSyncFailure ==
    /\ \E addr \in DOMAIN sync.peers :
         /\ Len(sync.peers[addr].history) < MaxSyncCalls
         /\ sync' = [sync EXCEPT
                        !.peers[addr].sync_failures = @ + 1,
                        !.peers[addr].history = Append(@, "failure")]
    /\ UNCHANGED <<blocks, difficulty, mempool, state, store, last, origin, threads, node>>

NextPeers == RegisterPeer \/ RemovePeer \/ RecordBlockReceived \/ RecordSyncFailure

SpecPeers == InitPeers /\ [][NextPeers]_vars

\* the history has three failures in a row
ThreeInARow(history) ==
    \E i \in 1..(Len(history) - 2) :
        \A j \in i..(i + 2) : history[j] = "failure"

\* C29: a peer is unreliable exactly when it has had 3 consecutive sync
\* failures: failures separated by a received block do not add up, and a
\* peer with fewer than 3 failures in a row is not unreliable.
C29_UnreliableAfterThree ==
    \A addr \in DOMAIN sync.peers :
        is_unreliable(sync.peers[addr]) <=> ThreeInARow(sync.peers[addr].history)

(***************************************************************************)
(* The queue of pending blocks under concurrent callers (src/src/sync.rs)  *)
(***************************************************************************)
MaxQueued == 3
MaxDrains == 3

\* the tasks that call queue_block and those that call get_pending_blocks
QueueCallers == {"queue_1", "queue_2"}
DrainCallers == {"drain_1", "drain_2"}

\* queue.push_back(block)
queue_block(queue, block) == Append(queue, block)

\* this variant returns a copy of the queue and leaves the queue as it is
get_pending_blocks_cloned(queue) == [returned |-> queue, pending_blocks |-> queue]

\* queue.drain(..).collect(): the whole queue, front first, is returned and
\* the queue is left empty
get_pending_blocks(queue) == [returned |-> queue, pending_blocks |-> <<>>]

\* the calls in flight of the callers cs
InFlight(cs) == Cardinality(DOMAIN sync.calls \cap cs)

\* NodeSynchronizer::new beside a fresh chain
InitQueue == Init

\* a task calls queue_block with the next block received from a peer and
\* reaches pending_blocks.write().await
QueueBlockCall ==
    /\ Len(sync.queued) + InFlight(QueueCallers) < MaxQueued
    /\ \E c \in QueueCallers \ DOMAIN sync.calls :
         sync' = [sync EXCEPT !.calls =
                     Insert(@, c, [pc |-> "waiting",
                                   block |-> Len(sync.queued) + InFlight(QueueCallers) + 1])]
    /\ UNCHANGED <<blocks, difficulty, mempool, state, store, last, origin, threads, node>>

\* a task calls get_pending_blocks and reaches pending_blocks.write().await
GetPendingBlocksCall ==
    /\ Len(sync.returned) + InFlight(DrainCallers) < MaxDrains
    /\ \E c \in DrainCallers \ DOMAIN sync.calls :
         sync' = [sync EXCEPT !.calls = Insert(@, c, [pc |-> "waiting", block |-> 0])]
    /\ UNCHANGED <<blocks, difficulty, mempool, state, store, last, origin, threads, node>>

\* a waiting caller gets the write guard of pending_blocks
AcquireGuard ==
    /\ sync.guard = "none"
    /\ \E c \in DOMAIN sync.calls :
         /\ sync.calls[c].pc = "waiting"
         /\ sync' = [sync EXCEPT !.guard = c, !.calls[c].pc = "holding"]
    /\ UNCHANGED <<blocks, difficulty, mempool, state, store, last, origin, threads, node>>

\* NodeSynchronizer::queue_block under the guard; the guard is dropped at the
\* return. queued records the blocks in the order they were pushed.
QueueBlock ==
    /\ sync.guard \in QueueCallers
    /\ \E block \in {sync.calls[sync.guard].block} :
         sync' = [sync EXCEPT
                     !.pending_blocks = queue_block(@, block),
                     !.queued = Append(@, block),
                     !.calls = Remove(@, sync.guard),
                     !.guard = "none"]
    /\ UNCHANGED <<blocks, difficulty, mempool, state, store, last, origin, threads, node>>

\* NodeSynchronizer::get_pending_blocks under the guard; the guard is dropped
\* at the return. returned records what each call returned.
GetPendingBlocks ==
    /\ sync.guard \in DrainCallers
    /\ \E r \in {get_pending_blocks(sync.pending_blocks)} :
         sync' = [sync EXCEPT
                     !.pending_blocks = r.pending_blocks,
                     !.returned = Append(@, r.returned),
                     !.calls = Remove(@, sync.guard),
                     !.guard = "none"]
    /\ UNCHANGED <<blocks, difficulty, mempool, state, store, last, origin, threads, node>>

NextQueue ==
    \/ QueueBlockCall
    \/ GetPendingBlocksCall
    \/ AcquireGuard
    \/ QueueBlock
    \/ GetPendingBlocks

SpecQueue == InitQueue /\ [][NextQueue]_vars

\* the results of the calls one after the other
RECURSIVE Flatten(_)
Flatten(results) ==
    IF results = <<>> THEN <<>> ELSE Head(results) \o Flatten(Tail(results))

\* C30: pending_blocks is FIFO and every queued block is handed out once:
\* what the get_pending_blocks calls returned, call after call, followed by
\* what is still in the queue, is the blocks in the order they were queued
\* (none lost, none twice, none out of order).
C30_QueueFifo == Flatten(sync.returned) \o sync.pending_blocks = sync.queued

\* a call of get_pending_blocks holds the guard after an earlier call
\* returned blocks, with a block in the queue and a queue_block call waiting
C30_Witness ==
    /\ sync.guard \in DrainCallers
    /\ Flatten(sync.returned) # <<>>
    /\ sync.pending_blocks # <<>>
    /\ \E c \in QueueCallers \cap DOMAIN sync.calls : sync.calls[c].pc = "waiting"

(***************************************************************************)
(* The proof-of-work comparison on hashes and difficulties                 *)
(* (src/src/blockchain/core/chain.rs)                                      *)
(***************************************************************************)
\* the bytes at the ends of every count of leading zero bits
HashByteValues == {0, 255} \cup UNION {{2 ^ k - 1, 2 ^ k} : k \in 0..7}

\* the hashes and the difficulties compared: up to and beyond the bits of a
\* hash
PowHashes == [1..HashLen -> HashByteValues]
PowDifficulties == 0..(8 * HashLen + 9)

\* the leading zero bits of a byte
ByteLeadingZeros(b) == IF b = 0 THEN 8 ELSE CHOOSE n \in 0..7 : 2 ^ (7 - n) <= b /\ b < 2 ^ (8 - n)

\* the leading zero bits of a hash
RECURSIVE LeadingZeroBits(_)
LeadingZeroBits(hash) ==
    IF hash = <<>> THEN 0
    ELSE IF Head(hash) = 0 THEN 8 + LeadingZeroBits(Tail(hash))
    ELSE ByteLeadingZeros(Head(hash))

\* a hash and a difficulty about to be compared
InitPow ==
    \E hash \in PowHashes, d \in PowDifficulties :
        \E r \in {BlockchainNew(1, 1)} :
            /\ blocks = r.blocks
            /\ difficulty = r.difficulty
            /\ mempool = r.mempool
            /\ state = r.state
            /\ store = r.store
            /\ last = [hash |-> hash, difficulty |-> d, checked |-> FALSE, passes |-> FALSE]
            /\ node = NodeIdle
            /\ sync = SyncIdle
            /\ origin = None
            /\ threads = ThreadsIdle

\* the comparison block_hash_int <= hash_target of verify_pow
VerifyPow ==
    /\ ~last.checked
    /\ last' = [last EXCEPT !.checked = TRUE,
                            !.passes = hash_meets_target(last.hash, last.difficulty)]
    /\ UNCHANGED <<blocks, difficulty, mempool, state, store, origin, threads, node, sync>>

NextPow == VerifyPow

SpecPow == InitPow /\ [][NextPow]_vars

C32_DatabaseLoadReturns ==
    [][(/\ threads.backend = "database"
        /\ threads.loader = "called"
        /\ threads'.loader # "called"
        /\ threads.poisoned = {}
        /\ store.blocks # <<>>) =>
          /\ threads'.loader = "returned"
          /\ threads'.returned = Loaded("Ok", store)]_vars

(***************************************************************************)
(* The difficulty a block declares                                         *)
(***************************************************************************)
\* C33: apply_block accepts a block only if the difficulty in its header is
\* the chain's current difficulty.
C33_DeclaredDifficulty ==
    [][Accepted => Last(blocks').header.difficulty = difficulty]_vars

(***************************************************************************)
(* Mining tasks across stop_mining and a new start_mining (src/src/api.rs) *)
(*                                                                         *)
(* node.tasks holds every task spawned so far, node.mining_task the stored *)
(* JoinHandle, node.holder the holder of the mining_task lock, node.start  *)
(* and node.stop the calls in flight, and node.active whether the last     *)
(* start_mining has returned Ok with no stop_mining call since.  The calls  *)
(* of start_mining and stop_mining come one after the other, each after    *)
(* the one before has returned; the tasks run beside them.                 *)
(***************************************************************************)
MaxTasks == 2

\* the tasks that are mining: in a round, or between two rounds and not
\* aborted
LiveTasks ==
    {i \in DOMAIN node.tasks :
        \/ node.tasks[i].pc = "mining"
        \/ node.tasks[i].pc \in {"top", "sleep"} /\ ~node.tasks[i].aborted}

InitTasks ==
    \E r \in {BlockchainNew(1, 1)} :
        /\ blocks = r.blocks
        /\ difficulty = r.difficulty
        /\ mempool = r.mempool
        /\ state = r.state
        /\ store = r.store
        /\ last = [result |-> "None", double_spend |-> FALSE]
        /\ node = [is_mining |-> FALSE, tasks |-> <<>>, mining_task |-> None,
                   holder |-> "none", start |-> "idle", stop |-> "idle",
                   taken |-> None, active |-> FALSE]
        /\ sync = SyncIdle
        /\ origin = None
        /\ threads = ThreadsIdle

\* start_mining up to the spawn: is_mining is swapped from false to true
\* and the task is spawned
StartSpawn ==
    /\ node.start = "idle"
    /\ node.stop = "idle"
    /\ ~node.is_mining
    /\ Len(node.tasks) < MaxTasks
    /\ node' = [node EXCEPT !.is_mining = TRUE,
                            !.tasks = Append(@, [pc |-> "top", aborted |-> FALSE]),
                            !.start = "spawned", !.active = FALSE]
    /\ UNCHANGED <<blocks, difficulty, mempool, state, store, last, origin, threads, sync>>

\* `*self.mining_task.write().await = Some(task)` and Ok(())
StartReturn ==
    /\ node.start = "spawned"
    /\ node.holder = "none"
    /\ node' = [node EXCEPT !.mining_task = Some(Len(node.tasks)),
                            !.start = "idle", !.active = TRUE]
    /\ UNCHANGED <<blocks, difficulty, mempool, state, store, last, origin, threads, sync>>

\* a call of stop_mining: is_mining is swapped from true to false, or
\* MiningNotRunning is returned
StopSwap ==
    /\ node.stop = "idle"
    /\ node.start = "idle"
    /\ node' = [node EXCEPT !.is_mining = FALSE,
                            !.stop = IF node.is_mining THEN "swapped" ELSE "idle",
                            !.active = FALSE]
    /\ UNCHANGED <<blocks, difficulty, mempool, state, store, last, origin, threads, sync>>

\* self.mining_task.write().await.take(): with no handle stored Ok is
\* returned, else the call sleeps with the lock held
StopTake ==
    /\ node.stop = "swapped"
    /\ node.holder = "none"
    /\ node' = [node EXCEPT
                   !.mining_task = None,
                   !.taken = node.mining_task,
                   !.holder = IF node.mining_task = None THEN "none" ELSE "stop",
                   !.stop = IF node.mining_task = None THEN "idle" ELSE "sleep"]
    /\ UNCHANGED <<blocks, difficulty, mempool, state, store, last, origin, threads, sync>>

\* after the sleep the task is aborted unless it has finished; Ok(())
StopAbort ==
    /\ node.stop = "sleep"
    /\ \E i \in {node.taken[1]} :
         node' = [node EXCEPT
                     !.tasks[i].aborted = @ \/ StopAborts(node.tasks[i].pc),
                     !.taken = None, !.holder = "none", !.stop = "idle"]
    /\ UNCHANGED <<blocks, difficulty, mempool, state, store, last, origin, threads, sync>>

\* a task that was spawned or woken is run: at the head of the loop the flag
\* is read, then the candidate is built and the nonce search begins
TaskTop ==
    /\ \E i \in DOMAIN node.tasks :
         /\ node.tasks[i].pc = "top"
         /\ ~node.tasks[i].aborted
         /\ node' = [node EXCEPT !.tasks[i].pc =
                        IF node.is_mining THEN "mining" ELSE "exiting"]
    /\ UNCHANGED <<blocks, difficulty, mempool, state, store, last, origin, threads, sync>>

\* one round of a task: the block is mined, applied and broadcast, and the
\* task sleeps
TaskRound ==
    /\ Len(blocks) < MaxBlocks
    /\ \E i \in DOMAIN node.tasks :
         /\ node.tasks[i].pc = "mining"
         /\ node' = [node EXCEPT !.tasks[i].pc = "sleep"]
    /\ \E block \in {MinedBlock(blocks, difficulty, 0)} :
       \E r \in {apply_block(Chain, block)} :
            /\ blocks' = r.blocks
            /\ difficulty' = r.difficulty
            /\ mempool' = r.mempool
            /\ state' = r.state
            /\ store' = r.store
    /\ UNCHANGED <<last, origin, threads, sync>>

\* the sleep between two rounds ends
TaskWake ==
    /\ \E i \in DOMAIN node.tasks :
         /\ node.tasks[i].pc = "sleep"
         /\ ~node.tasks[i].aborted
         /\ node' = [node EXCEPT !.tasks[i].pc = "top"]
    /\ UNCHANGED <<blocks, difficulty, mempool, state, store, last, origin, threads, sync>>

\* the runtime drops an aborted task that is not running: suspended in its
\* sleep, or not run yet
TaskCancelled ==
    /\ \E i \in DOMAIN node.tasks :
         /\ node.tasks[i].pc \in {"sleep", "top"}
         /\ node.tasks[i].aborted
         /\ node' = [node EXCEPT !.tasks[i].pc = "aborted"]
    /\ UNCHANGED <<blocks, difficulty, mempool, state, store, last, origin, threads, sync>>

\* after the loop: node_clone.is_mining.store(false)
TaskExit ==
    /\ \E i \in DOMAIN node.tasks :
         /\ node.tasks[i].pc = "exiting"
         /\ node' = [node EXCEPT !.tasks[i].pc = "finished", !.is_mining = FALSE]
    /\ UNCHANGED <<blocks, difficulty, mempool, state, store, last, origin, threads, sync>>

NextTasks ==
    \/ StartSpawn
    \/ StartReturn
    \/ StopSwap
    \/ StopTake
    \/ StopAbort
    \/ TaskTop
    \/ TaskRound
    \/ TaskWake
    \/ TaskCancelled
    \/ TaskExit

SpecTasks == InitTasks /\ [][NextTasks]_vars

\* C34: between a start_mining that returned Ok and the next stop_mining
\* call exactly one mining task is running: no earlier task mines beside the
\* new one or clears is_mining for it.
C34_OneMiningTask == node.active => Cardinality(LiveTasks) = 1

(***************************************************************************)
(* Progress of the mining task (src/src/api.rs).  The steps of the task    *)
(* and of the handlers are taken sooner or later: the nonce search and     *)
(* the broadcasts return, and the chain lock is handed to every waiter in  *)
(* turn.  Calls of start_mining, stop_mining and submit_transaction may    *)
(* or may not come.                                                        *)
(***************************************************************************)
\* a transfer that passes the stateless checks of the mempool and spends a
\* triangle that is not in the UTXO set
StaleTransfer == SignedTransfer(MissingKey, 2, 1, 1, 1, KeyOf(1))

\* submit_transaction with a transfer whose input is not there
SubmitStale ==
    /\ TransferValidate(StaleTransfer) = "Ok"
    /\ SubmitCall({StaleTransfer})

NextMining ==
    \/ StartMining
    \/ MinerTop
    \/ MinerReadWake
    \/ MinerMined
    \/ MinerWriteWake
    \/ MinerBroadcastDone
    \/ MinerWake
    \/ MinerCancelled
    \/ StopMining
    \/ StopReturn
    \/ SubmitTransaction
    \/ SubmitStale
    \/ IngressWriteWake
    \/ IngressStats
    \/ IngressDone

FairMining ==
    /\ WF_vars(MinerTop)
    /\ SF_vars(MinerReadWake)
    /\ WF_vars(MinerMined)
    /\ SF_vars(MinerWriteWake)
    /\ WF_vars(MinerBroadcastDone)
    /\ WF_vars(MinerWake)
    /\ WF_vars(MinerCancelled)
    /\ WF_vars(StopReturn)
    /\ WF_vars(IngressWriteWake)
    /\ WF_vars(IngressStats)
    /\ WF_vars(IngressDone)

SpecMining == InitNode /\ [][NextMining]_vars /\ FairMining

\* C35: while mining is active the chain height eventually increases,
\* whatever the mempool holds: from genesis alone with mining on, the chain
\* grows or mining is stopped.
C35_MiningProgress ==
    (node.is_mining /\ Len(blocks) = 1) ~> (Len(blocks) > 1 \/ ~node.is_mining)

\* C36: a block accepted by apply_block contains exactly one Coinbase, at
\* index 0: no Coinbase appears at any other index (stated for the accepted
\* blocks that hold a transaction).
C36_OneCoinbase ==
    [][Accepted /\ Last(blocks').transactions # <<>> =>
        LET txs == Last(blocks').transactions
        IN  /\ Cardinality({i \in 1..Len(txs) : txs[i].kind = "Coinbase"}) = 1
            /\ \A i \in 2..Len(txs) : txs[i].kind # "Coinbase"]_vars

\* C37: every child triangle that an accepted Subdivision inserts into the
\* UTXO set is owned by the parent's owner (the transaction's
\* owner_address) and carries a third of the parent's effective value.
C37_ChildrenOfParent ==
    [][Accepted =>
        LET txs == Last(blocks').transactions
        IN  \A i \in 1..Len(txs) :
                (/\ txs[i].kind = "Subdivision"
                 /\ txs[i].parent_hash \in DOMAIN state.utxo_set)
                => LET parent == state.utxo_set[txs[i].parent_hash]
                   IN  \A j \in 1..Len(txs[i].children) :
                           /\ txs[i].children[j].owner = txs[i].owner_address
                           /\ txs[i].children[j].owner = parent.owner
                           /\ effective_value(txs[i].children[j])
                                = TruncDiv(effective_value(parent), 3)]_vars

(***************************************************************************)
(* The in-memory backend under calls of its Persistence methods            *)
(* (src/src/persistence.rs): blocks are saved at the next height, up to    *)
(* MaxSavedHeight, or at a height that is already stored, and              *)
(* load_blockchain is called in between.  last holds the blocks of the     *)
(* chain the last load_blockchain returned.                                *)
(***************************************************************************)
MaxSavedHeight == 2

SavedBlock(height, nonce) ==
    Block(BlockHeader(height, GENESIS_TIMESTAMP + height, ZeroHash,
                      calculate_merkle_root(<<MinedCoinbase>>), 1, nonce),
          <<MinedCoinbase>>)

\* the blocks a caller saves to the store st: one at the next height, or
\* one at a height that st already holds
SavedBlocks(st) ==
    {SavedBlock(h, n) : h \in {k \in 0..MaxSavedHeight : k <= Len(st.blocks)},
                        n \in Nonces}

InitStore ==
    /\ blocks = <<>>
    /\ difficulty = 2
    /\ mempool = MempoolNew
    /\ state = TriangleStateNew
    /\ store = InMemoryPersistenceNew
    /\ last = [op |-> "new", loaded |-> <<>>]
    /\ node = NodeIdle
    /\ sync = SyncIdle
    /\ origin = None
    /\ threads = ThreadsIdle

\* a call of InMemoryPersistence::save_blockchain_state
SaveBlockchainState ==
    /\ \E block \in SavedBlocks(store) :
         store' = save_blockchain_state(store, block, state, difficulty)
    /\ last' = [op |-> "save_blockchain_state", loaded |-> <<>>]
    /\ UNCHANGED <<blocks, difficulty, mempool, state, origin, threads, node, sync>>

\* a call of InMemoryPersistence::save_block
SaveBlock ==
    /\ \E block \in SavedBlocks(store) : store' = save_block(store, block)
    /\ last' = [op |-> "save_block", loaded |-> <<>>]
    /\ UNCHANGED <<blocks, difficulty, mempool, state, origin, threads, node, sync>>

\* a call of InMemoryPersistence::load_blockchain
LoadBlockchain ==
    /\ \E r \in {load_blockchain(store)} :
         /\ r.result = "Ok"
         /\ last' = [op |-> "load_blockchain", loaded |-> r.blocks]
    /\ UNCHANGED <<blocks, difficulty, mempool, state, store, origin, threads, node, sync>>

NextStore == SaveBlockchainState \/ SaveBlock \/ LoadBlockchain

SpecStore == InitStore /\ [][NextStore]_vars

\* C38: load_blockchain returns the blocks in strictly ascending height
\* order, also after a block was saved again at a height already stored.
C38_LoadedAscending ==
    last.op = "load_blockchain" =>
        \A i \in 1..(Len(last.loaded) - 1) :
            last.loaded[i].header.height < last.loaded[i + 1].header.height

(***************************************************************************)
(* Peer selection and sync_from_peer in the NodeSynchronizer               *)
(* (src/src/sync.rs).  A peer is [height, stale, sync_failures, streak,    *)
(* is_syncing]: stale says that more than 300 s have passed since          *)
(* last_seen, streak counts the failures since the last received block     *)
(* (kept for the properties).  sync.sync_call is the peer of the           *)
(* sync_from_peer call that is between its two set_peer_syncing calls.     *)
(* last holds what the last call returned; every other call clears it.     *)
(* The sync state is written by sync_from_peer alone (set_sync_state is    *)
(* private).                                                               *)
(***************************************************************************)
MaxHeight == 2
MaxCount == 2

\* PeerSyncInfo::new
PeerSyncInfoAt(height) ==
    [height |-> height, stale |-> FALSE, sync_failures |-> 0, streak |-> 0,
     is_syncing |-> FALSE]

\* PeerSyncInfo::is_stale
is_stale(peer) == peer.stale

\* the filter of get_best_peer and get_best_peers
ValidPeers(peers) ==
    {a \in DOMAIN peers :
        ~is_unreliable(peers[a]) /\ ~is_stale(peers[a]) /\ ~peers[a].is_syncing}

\* Iterator::max_by_key over the values of the HashMap: a peer of the
\* greatest height, any of them when several have it
get_best_peer(peers) ==
    {Some(a) : a \in {b \in ValidPeers(peers) :
                        \A c \in ValidPeers(peers) :
                            peers[c].height <= peers[b].height}}
    \cup (IF ValidPeers(peers) = {} THEN {None} ELSE {})

\* the orders of a set of peers by descending height
Descending(peers, addrs) ==
    {q \in [1..Cardinality(addrs) -> addrs] :
        /\ \A i, j \in DOMAIN q : i # j => q[i] # q[j]
        /\ \A i, j \in DOMAIN q : i < j => peers[q[i]].height >= peers[q[j]].height}

\* sort_by descending height, then take(count)
get_best_peers(peers, count) ==
    {SubSeq(q, 1, IF count < Len(q) THEN count ELSE Len(q)) :
        q \in Descending(peers, ValidPeers(peers))}

NoCall == [op |-> "none", best |-> None, bests |-> <<>>, count |-> 0, result |-> "None", before |-> "Idle"]

InitSync ==
    \E r \in {BlockchainNew(1, 1)} :
        /\ r.result = "Ok"
        /\ blocks = r.blocks
        /\ difficulty = r.difficulty
        /\ mempool = r.mempool
        /\ state = r.state
        /\ store = r.store
        /\ last = NoCall
        /\ node = NodeIdle
        /\ sync = SyncIdle
        /\ origin = None
        /\ threads = ThreadsIdle

\* NodeSynchronizer::register_peer with a height
RegisterPeerAt ==
    /\ \E addr \in PeerAddrs \ DOMAIN sync.peers, height \in 1..MaxHeight :
         sync' = [sync EXCEPT !.peers = Insert(@, addr, PeerSyncInfoAt(height))]
    /\ last' = NoCall
    /\ UNCHANGED <<blocks, difficulty, mempool, state, store, origin, threads, node>>

\* NodeSynchronizer::remove_peer
RemovePeerAt ==
    /\ \E addr \in DOMAIN sync.peers :
         sync' = [sync EXCEPT !.peers = Remove(@, addr)]
    /\ last' = NoCall
    /\ UNCHANGED <<blocks, difficulty, mempool, state, store, origin, threads, node>>

\* NodeSynchronizer::update_peer_height
UpdatePeerHeight ==
    /\ \E addr \in DOMAIN sync.peers, height \in 1..MaxHeight :
         sync' = [sync EXCEPT !.peers[addr].height = height,
                              !.peers[addr].stale = FALSE]
    /\ last' = NoCall
    /\ UNCHANGED <<blocks, difficulty, mempool, state, store, origin, threads, node>>

\* NodeSynchronizer::record_block_received
BlockReceived ==
    /\ \E addr \in DOMAIN sync.peers :
         sync' = [sync EXCEPT !.peers[addr].streak = 0,
                              !.peers[addr].stale = FALSE]
    /\ last' = NoCall
    /\ UNCHANGED <<blocks, difficulty, mempool, state, store, origin, threads, node>>

\* NodeSynchronizer::record_sync_failure
SyncFailure ==
    /\ \E addr \in DOMAIN sync.peers :
         /\ sync.peers[addr].sync_failures < 3
         /\ sync' = [sync EXCEPT !.peers[addr].sync_failures = @ + 1,
                                 !.peers[addr].streak = @ + 1,
                                 !.peers[addr].stale = FALSE]
    /\ last' = NoCall
    /\ UNCHANGED <<blocks, difficulty, mempool, state, store, origin, threads, node>>

\* 300 seconds pass after the last_seen of a peer
PeerGoesStale ==
    /\ \E addr \in DOMAIN sync.peers :
         /\ ~sync.peers[addr].stale
         /\ sync' = [sync EXCEPT !.peers[addr].stale = TRUE]
    /\ last' = NoCall
    /\ UNCHANGED <<blocks, difficulty, mempool, state, store, origin, threads, node>>

\* a call of get_best_peer
GetBestPeer ==
    /\ \E best \in get_best_peer(sync.peers) :
         last' = [NoCall EXCEPT !.op = "get_best_peer", !.best = best]
    /\ UNCHANGED <<blocks, difficulty, mempool, state, store, origin, threads, node, sync>>

\* a call of get_best_peers(count)
GetBestPeers ==
    /\ \E count \in 0..MaxCount :
         \E bests \in get_best_peers(sync.peers, count) :
             last' = [NoCall EXCEPT !.op = "get_best_peers", !.bests = bests,
                                    !.count = count]
    /\ UNCHANGED <<blocks, difficulty, mempool, state, store, origin, threads, node, sync>>

\* sync_from_peer up to its first set_peer_syncing: the state is set to
\* Syncing, then the peer is looked up; Err is returned when it is not there
SyncFromPeer ==
    /\ sync.sync_call = None
    /\ \E peer_addr \in PeerAddrs :
         IF peer_addr \in DOMAIN sync.peers
         THEN /\ sync' = [sync EXCEPT !.sync_state = "Syncing",
                                      !.peers[peer_addr].is_syncing = TRUE,
                                      !.sync_call = Some(peer_addr)]
              /\ last' = [NoCall EXCEPT !.before = sync.sync_state]
         ELSE /\ sync' = [sync EXCEPT !.sync_state = "Syncing"]
              /\ last' = [NoCall EXCEPT !.op = "sync_from_peer", !.result = "Err",
                                        !.before = sync.sync_state]
    /\ UNCHANGED <<blocks, difficulty, mempool, state, store, origin, threads, node>>

\* the rest of sync_from_peer: the second set_peer_syncing, which returns
\* Err when the peer was removed in between, then the state Synced
SyncFromPeerReturn ==
    /\ sync.sync_call # None
    /\ \E peer_addr \in {sync.sync_call[1]} :
         IF peer_addr \in DOMAIN sync.peers
         THEN /\ sync' = [sync EXCEPT !.sync_state = "Synced",
                                      !.peers[peer_addr].is_syncing = FALSE,
                                      !.sync_call = None]
              /\ last' = [NoCall EXCEPT !.op = "sync_from_peer", !.result = "Ok",
                                        !.before = last.before]
         ELSE /\ sync' = [sync EXCEPT !.sync_call = None]
              /\ last' = [NoCall EXCEPT !.op = "sync_from_peer", !.result = "Err",
                                        !.before = last.before]
    /\ UNCHANGED <<blocks, difficulty, mempool, state, store, origin, threads, node>>

NextSync ==
    \/ RegisterPeerAt
    \/ RemovePeerAt
    \/ UpdatePeerHeight
    \/ BlockReceived
    \/ SyncFailure
    \/ PeerGoesStale
    \/ GetBestPeer
    \/ GetBestPeers
    \/ SyncFromPeer
    \/ SyncFromPeerReturn

SpecSync == InitSync /\ [][NextSync]_vars

\* the registered peers that are neither unreliable (three failures in a
\* row) nor stale
Healthy(peers) == {a \in DOMAIN peers : peers[a].streak < 3 /\ ~peers[a].stale}

\* C39: get_best_peer returns a registered peer of maximal height among the
\* peers that are neither unreliable nor stale, and none only when there is
\* no such peer; get_best_peers(n) returns at most n such peers in
\* descending height order.
C39_BestPeer ==
    /\ last.op = "get_best_peer" =>
         IF last.best = None THEN Healthy(sync.peers) = {}
         ELSE /\ last.best[1] \in Healthy(sync.peers)
              /\ \A a \in Healthy(sync.peers) :
                     sync.peers[a].height <= sync.peers[last.best[1]].height
    /\ last.op = "get_best_peers" =>
         /\ Len(last.bests) <= last.count
         /\ \A i \in 1..Len(last.bests) : last.bests[i] \in Healthy(sync.peers)
         /\ \A i \in 1..(Len(last.bests) - 1) :
                sync.peers[last.bests[i]].height
                    >= sync.peers[last.bests[i + 1]].height

\* C40: sync_from_peer never leaves the synchronizer in state Syncing once
\* it has returned: after Ok the state is Synced, after an error it is
\* Failed or the value it had before the call.
C40_NotLeftSyncing ==
    last.op = "sync_from_peer" =>
        /\ sync.sync_state # "Syncing"
        /\ last.result = "Ok" => sync.sync_state = "Synced"
        /\ last.result = "Err" => sync.sync_state \in {"Failed", last.before}

====
